---- MODULE Spec2Model ----
(***************************************************************************)
(* VERIFY: the three server variants of the content-authenticity service.  *)
(*   "dev"    src/server.ts          (file-backed SQLite, strict JSON.parse) *)
(*   "prod"   src/unnamed/part_000   (file-backed SQLite, parseJSON helper)  *)
(*   "lambda" src/unnamed/part_001   (in-memory SQLite, serverless adapter)  *)
(*                                                                         *)
(* Strings of the program are sequences of symbols.  A symbol is a single  *)
(* character, or a run of characters that the operations applied to the    *)
(* string never look into (no quote, backslash, backtick, brace or control *)
(* character; in a request text no space and no full stop) and that is     *)
(* therefore moved around whole.                                           *)
(***************************************************************************)
EXTENDS Integers, Sequences, FiniteSets, TLC

\* ------------------------------------------------------------------ strings

Digits == <<"0", "1", "2", "3", "4", "5", "6", "7", "8", "9">>

IsDigit(c) == \E d \in 1..10 : Digits[d] = c

DigitVal(c) == (CHOOSE d \in 1..10 : Digits[d] = c) - 1

\* the white space that the regex class \s and String.prototype.trim match
IsWs(c) == c \in {" ", "\n", "\t", "\r", "\f"}

\* the white space JSON allows between tokens
IsJsonWs(c) == c \in {" ", "\n", "\t", "\r"}

\* a control character, which JSON forbids unescaped inside a string
IsControl(c) == c \in {"\n", "\t", "\r", "\f"}

\* the backquote character, which a TLA+ string literal cannot hold
Backtick == "<backquote>"

\* the number of characters of a symbol
CharLen(c) == IF c = Backtick THEN 1 ELSE Len(c)

Rep(c, n) == [i \in 1..n |-> c]

RECURSIVE Concat(_)
Concat(ss) == IF ss = <<>> THEN <<>> ELSE Head(ss) \o Concat(Tail(ss))

RECURSIVE SumExtra(_, _)
SumExtra(s, wide) ==
  IF wide = {} THEN 0
  ELSE LET i == CHOOSE i \in wide : TRUE
       IN (CharLen(s[i]) - 1) + SumExtra(s, wide \ {i})

\* String.prototype.length: the number of characters of a symbol sequence
StrLength(s) == Len(s) + SumExtra(s, {i \in 1..Len(s) : CharLen(s[i]) # 1})

\* String.prototype.includes
Includes(s, pat) ==
  \E i \in 0..(Len(s) - Len(pat)) : SubSeq(s, i + 1, i + Len(pat)) = pat

\* String.prototype.substring(0, n) of a string of single characters
Substring0(s, n) == SubSeq(s, 1, IF Len(s) < n THEN Len(s) ELSE n)

\* String.prototype.split(sep).length for a one-character separator
SplitCount(s, sep) == Cardinality({i \in 1..Len(s) : s[i] = sep}) + 1

\* String.prototype.split(sep)[0]
SplitFirst(s, sep) ==
  LET at == {i \in 1..Len(s) : s[i] = sep}
  IN IF at = {} THEN s
     ELSE SubSeq(s, 1, (CHOOSE i \in at : \A j \in at : i <= j) - 1)

\* String.prototype.trim
RECURSIVE TrimLeft(_)
TrimLeft(s) == IF s # <<>> /\ IsWs(Head(s)) THEN TrimLeft(Tail(s)) ELSE s

RECURSIVE TrimRight(_)
TrimRight(s) ==
  IF s # <<>> /\ IsWs(s[Len(s)]) THEN TrimRight(SubSeq(s, 1, Len(s) - 1)) ELSE s

Trim(s) == TrimRight(TrimLeft(s))

\* Number.prototype.toString of an integer
RECURSIVE NatToText(_)
NatToText(n) ==
  IF n < 10 THEN <<Digits[n + 1]>> ELSE NatToText(n \div 10) \o <<Digits[(n % 10) + 1]>>

IntToText(n) == IF n < 0 THEN <<"-">> \o NatToText(0 - n) ELSE NatToText(n)

\* ------------------------------------------------------------- JS values

Undefined == [t |-> "undefined"]
Null == [t |-> "null"]
NaN == [t |-> "nan"]
Num(n) == [t |-> "num", v |-> n]
Str(s) == [t |-> "str", v |-> s]
Bool(b) == [t |-> "bool", v |-> b]
Arr(es) == [t |-> "arr", v |-> es]
\* an object is the sequence of its own properties, in insertion order
Obj(ms) == [t |-> "obj", v |-> ms]
Prop(k, v) == [k |-> k, v |-> v]

\* the JS truthiness test of `!x` and `x || y`
Truthy(x) ==
  CASE x.t \in {"undefined", "null", "nan"} -> FALSE
    [] x.t = "num" -> x.v # 0
    [] x.t = "str" -> x.v # <<>>
    [] x.t = "bool" -> x.v
    [] OTHER -> TRUE

Or(x, y) == IF Truthy(x) THEN x ELSE y

HasKey(ms, k) == \E i \in 1..Len(ms) : ms[i].k = k

\* property read o.k of a non-null value: undefined when o has no own k
Get(o, k) ==
  IF o.t = "obj" /\ HasKey(o.v, k)
  THEN o.v[CHOOSE i \in 1..Len(o.v) : o.v[i].k = k].v
  ELSE Undefined

\* property write o.k = v on an object: in place, or appended
Put(o, k, v) ==
  IF HasKey(o.v, k)
  THEN Obj([i \in 1..Len(o.v) |-> IF o.v[i].k = k THEN Prop(k, v) ELSE o.v[i]])
  ELSE Obj(Append(o.v, Prop(k, v)))

\* x == null, true of null and of undefined
IsNullish(x) == x.t \in {"undefined", "null"}

\* ---------------------------------------------------------- JSON.stringify

\* the escape JSON.stringify writes for one symbol of a string
Escape(c) ==
  CASE c = "\"" -> <<"\\", "\"">>
    [] c = "\\" -> <<"\\", "\\">>
    [] c = "\n" -> <<"\\", "n">>
    [] c = "\t" -> <<"\\", "t">>
    [] c = "\r" -> <<"\\", "r">>
    [] c = "\f" -> <<"\\", "f">>
    [] OTHER -> <<c>>

Quote(s) ==
  <<"\"">>
    \o (IF \A i \in 1..Len(s) : Escape(s[i]) = <<s[i]>>
        THEN s
        ELSE Concat([i \in 1..Len(s) |-> Escape(s[i])]))
    \o <<"\"">>

RECURSIVE Join(_, _)
Join(parts, sep) ==
  IF parts = <<>> THEN <<>>
  ELSE IF Len(parts) = 1 THEN Head(parts)
  ELSE Head(parts) \o sep \o Join(Tail(parts), sep)

\* JSON.stringify of a value that is not undefined: a property whose value is
\* undefined is left out, NaN and an undefined array element are written null
RECURSIVE Stringify(_)
Stringify(x) ==
  CASE x.t = "num" -> IntToText(x.v)
    [] x.t = "str" -> Quote(x.v)
    [] x.t = "bool" -> IF x.v THEN <<"true">> ELSE <<"false">>
    [] x.t = "arr" ->
         <<"[">> \o Join([i \in 1..Len(x.v) |-> Stringify(x.v[i])], <<",">>) \o <<"]">>
    [] x.t = "obj" ->
         LET kept == SelectSeq(x.v, LAMBDA m : m.v.t # "undefined")
         IN <<"{">>
            \o Join([i \in 1..Len(kept) |->
                       Quote(kept[i].k) \o <<":">> \o Stringify(kept[i].v)], <<",">>)
            \o <<"}">>
    [] OTHER -> <<"null">>

\* -------------------------------------------------------------- JSON.parse

Fail == [ok |-> FALSE]
Done(v, i) == [ok |-> TRUE, v |-> v, i |-> i]

RECURSIVE SkipWs(_, _)
SkipWs(s, i) == IF i <= Len(s) /\ IsJsonWs(s[i]) THEN SkipWs(s, i + 1) ELSE i

\* the character an escape \c stands for; "" when JSON has no such escape
Unescape(c) ==
  CASE c = "\"" -> "\""
    [] c = "\\" -> "\\"
    [] c = "/" -> "/"
    [] c = "n" -> "\n"
    [] c = "t" -> "\t"
    [] c = "r" -> "\r"
    [] c = "f" -> "\f"
    [] OTHER -> ""

\* the first place from i on where a string literal does not go on with a
\* plain character: a quote, a backslash, a control character, or the end
PlainRun(s, i) ==
  LET stops == {j \in i..Len(s) : s[j] \in {"\"", "\\"} \/ IsControl(s[j])}
  IN IF stops = {} THEN Len(s) + 1 ELSE CHOOSE j \in stops : \A k \in stops : j <= k

\* the rest of a string literal from s[i] on, its opening quote consumed
RECURSIVE ParseString(_, _, _)
ParseString(s, i, acc) ==
  LET j == PlainRun(s, i)
      run == acc \o SubSeq(s, i, j - 1)
  IN
    IF j > Len(s) THEN Fail
    ELSE IF s[j] = "\"" THEN Done(run, j + 1)
    ELSE IF s[j] = "\\"
         THEN IF j + 1 <= Len(s) /\ Unescape(s[j + 1]) # ""
              THEN ParseString(s, j + 2, Append(run, Unescape(s[j + 1])))
              ELSE Fail
    ELSE Fail

RECURSIVE ParseDigits(_, _, _)
ParseDigits(s, i, n) ==
  IF i <= Len(s) /\ IsDigit(s[i])
  THEN ParseDigits(s, i + 1, 10 * n + DigitVal(s[i]))
  ELSE Done(n, i)

\* an integer literal: -?(0|[1-9][0-9]*)
ParseNumber(s, i) ==
  LET neg == s[i] = "-"
      j == IF neg THEN i + 1 ELSE i
  IN IF j > Len(s) \/ ~IsDigit(s[j]) THEN Fail
     ELSE LET r == IF s[j] = "0" THEN Done(0, j + 1) ELSE ParseDigits(s, j, 0)
          IN Done(Num(IF neg THEN 0 - r.v ELSE r.v), r.i)

RECURSIVE ParseValue(_, _)
RECURSIVE ParseMembers(_, _, _)
RECURSIVE ParseElements(_, _, _)

\* the members of an object from s[i] on, up to and including its "}"; a
\* repeated key keeps its first place and takes the last value
ParseMembers(s, i, acc) ==
  LET j == SkipWs(s, i)
  IN IF j > Len(s) \/ s[j] # "\"" THEN Fail
     ELSE LET key == ParseString(s, j + 1, <<>>)
          IN IF ~key.ok THEN Fail
             ELSE LET c == SkipWs(s, key.i)
                  IN IF c > Len(s) \/ s[c] # ":" THEN Fail
                     ELSE LET val == ParseValue(s, c + 1)
                          IN IF ~val.ok THEN Fail
                             ELSE LET m == SkipWs(s, val.i)
                                      acc2 == Put(Obj(acc), key.v, val.v).v
                                  IN IF m > Len(s) THEN Fail
                                     ELSE IF s[m] = "," THEN ParseMembers(s, m + 1, acc2)
                                     ELSE IF s[m] = "}" THEN Done(Obj(acc2), m + 1)
                                     ELSE Fail

\* the elements of an array from s[i] on, up to and including its "]"
ParseElements(s, i, acc) ==
  LET val == ParseValue(s, i)
  IN IF ~val.ok THEN Fail
     ELSE LET m == SkipWs(s, val.i)
          IN IF m > Len(s) THEN Fail
             ELSE IF s[m] = "," THEN ParseElements(s, m + 1, Append(acc, val.v))
             ELSE IF s[m] = "]" THEN Done(Arr(Append(acc, val.v)), m + 1)
             ELSE Fail

ParseValue(s, i0) ==
  LET i == SkipWs(s, i0)
  IN IF i > Len(s) THEN Fail
     ELSE CASE s[i] = "{" ->
                 LET j == SkipWs(s, i + 1)
                 IN IF j <= Len(s) /\ s[j] = "}" THEN Done(Obj(<<>>), j + 1)
                    ELSE ParseMembers(s, i + 1, <<>>)
            [] s[i] = "[" ->
                 LET j == SkipWs(s, i + 1)
                 IN IF j <= Len(s) /\ s[j] = "]" THEN Done(Arr(<<>>), j + 1)
                    ELSE ParseElements(s, i + 1, <<>>)
            [] s[i] = "\"" ->
                 LET r == ParseString(s, i + 1, <<>>)
                 IN IF r.ok THEN Done(Str(r.v), r.i) ELSE Fail
            [] s[i] = "-" \/ IsDigit(s[i]) -> ParseNumber(s, i)
            [] s[i] = "true" -> Done(Bool(TRUE), i + 1)
            [] s[i] = "false" -> Done(Bool(FALSE), i + 1)
            [] s[i] = "null" -> Done(Null, i + 1)
            [] OTHER -> Fail

\* JSON.parse(s): [ok |-> TRUE, v |-> the value], or [ok |-> FALSE] for the
\* SyntaxError it throws
JSONparse(s) ==
  LET r == ParseValue(s, 1)
  IN IF r.ok /\ SkipWs(s, r.i) > Len(s) THEN [ok |-> TRUE, v |-> r.v] ELSE Fail

\* ---------------------------------------------------------- Number(x)

\* Number(s) of a string: an optionally signed run of digits, white space
\* trimmed; the empty string is 0; anything else is NaN
StrToNumber(s) ==
  LET t == Trim(s)
      signed == t # <<>> /\ Head(t) \in {"-", "+"}
      ds == IF signed THEN Tail(t) ELSE t
  IN IF t = <<>> THEN Num(0)
     ELSE IF ds # <<>> /\ \A i \in 1..Len(ds) : IsDigit(ds[i])
          THEN LET n == ParseDigits(ds, 1, 0).v
               IN Num(IF Head(t) = "-" THEN 0 - n ELSE n)
          ELSE NaN

\* the numeric conversion the operator `-` applies to an operand
ToNumber(x) ==
  CASE x.t = "num" -> x
    [] x.t = "bool" -> Num(IF x.v THEN 1 ELSE 0)
    [] x.t = "null" -> Num(0)
    [] x.t = "str" -> StrToNumber(x.v)
    [] x.t = "arr" ->
         IF x.v = <<>> THEN Num(0)
         ELSE IF Len(x.v) = 1 /\ x.v[1].t = "num" THEN x.v[1]
         ELSE IF Len(x.v) = 1 /\ x.v[1].t = "str" THEN StrToNumber(x.v[1].v)
         ELSE NaN
    [] OTHER -> NaN

\* 100 - x
Minus100(x) == LET n == ToNumber(x) IN IF n.t = "num" THEN Num(100 - n.v) ELSE NaN

\* ------------------------------------------------------- parseJSON (prod)

\* the words the case-insensitive /```json/ matches after a fence
JsonWords == {"json", "JSON", "Json"}

RECURSIVE SkipSpace(_, _)
SkipSpace(s, i) == IF i <= Len(s) /\ IsWs(s[i]) THEN SkipSpace(s, i + 1) ELSE i

IsFenceAt(s, i) ==
  i + 2 <= Len(s) /\ s[i] = Backtick /\ s[i + 1] = Backtick /\ s[i + 2] = Backtick

\* s.replace(/```json\s*/gi, "") from s[i] on
RECURSIVE StripJsonFences(_, _)
StripJsonFences(s, i) ==
  IF i > Len(s) THEN <<>>
  ELSE IF IsFenceAt(s, i) /\ i + 3 <= Len(s) /\ s[i + 3] \in JsonWords
       THEN StripJsonFences(s, SkipSpace(s, i + 4))
       ELSE <<s[i]>> \o StripJsonFences(s, i + 1)

\* s.replace(/```\s*/g, "") from s[i] on
RECURSIVE StripFences(_, _)
StripFences(s, i) ==
  IF i > Len(s) THEN <<>>
  ELSE IF IsFenceAt(s, i) THEN StripFences(s, SkipSpace(s, i + 3))
       ELSE <<s[i]>> \o StripFences(s, i + 1)

\* t.match(/\{[\s\S]*\}/): from the first "{" to the last "}" after it
MatchBraces(t) ==
  LET opens == {i \in 1..Len(t) : t[i] = "{"}
      closes == {j \in 1..Len(t) : t[j] = "}"}
  IN IF opens = {} \/ closes = {} THEN [found |-> FALSE]
     ELSE LET i == CHOOSE i \in opens : \A k \in opens : i <= k
              j == CHOOSE j \in closes : \A k \in closes : k <= j
          IN IF i < j THEN [found |-> TRUE, m |-> SubSeq(t, i, j)] ELSE [found |-> FALSE]

\* parseJSON(text), text a string
parseJSON(text) ==
  LET t == Trim(StripFences(StripJsonFences(text, 1), 1))
      strict == JSONparse(t)
      m == MatchBraces(t)
      inner == IF m.found THEN JSONparse(m.m) ELSE Fail
  IN IF strict.ok THEN strict.v
     ELSE IF inner.ok THEN inner.v
     ELSE Obj(<<>>)

\* ------------------------------------------------------------ the servers

Variants == {"dev", "prod", "lambda"}

AnalysisEndpoints == {"text", "image", "video", "link", "profile"}

\* the routes each variant registers
Routes(v) ==
  AnalysisEndpoints \cup {"chat", "history"}
    \cup (IF v = "dev" THEN {"generate"} ELSE {})
    \cup (IF v = "lambda" THEN {"generate", "compare"} ELSE {})

aiProbability == <<"aiProbability">>
humanProbability == <<"humanProbability">>
explanation == <<"explanation">>
exif == <<"exif">>
originalname == <<"originalname">>

\* a thrown Error: its status property and its message
Error(status, message) == [status |-> status, message |-> message]

NoError == Error(Undefined, <<>>)

\* the SyntaxError of JSON.parse
SyntaxError == Error(Undefined, <<"Unexpected token in JSON">>)

\* the TypeError of a call or property access on a value that has no such member
TypeError(message) == Error(Undefined, message)

isQuotaError(e) ==
  \/ e.status = Num(429)
  \/ Includes(e.message, <<"4", "2", "9">>)
  \/ Includes(e.message, <<"RESOURCE_EXHAUSTED">>)

\* the marker every fallback explanation opens with (its warning sign left out)
DemoMode == <<"**", "Demo Mode", "**">>

mockTextResult(v, text, rnd) ==
  LET long == StrLength(text) > 300
      words == IntToText(SplitCount(text, " "))
      expl ==
        CASE v = "dev" ->
               DemoMode \o <<" (API quota reset pending)", "\n", "\n",
                 "Based on linguistic pattern analysis of the provided ">> \o words
               \o <<"-word text:", "\n", "\n", "- Vocabulary diversity score: ",
                    "0", ".">> \o IntToText(rnd)
               \o <<"\n", "\n", "This analysis is a demonstration.">>
          [] v = "prod" ->
               DemoMode \o <<" (API quota reset pending)", "\n", "\n",
                 "Based on linguistic pattern analysis of the ">> \o words
               \o <<"-word text, this is a demonstration.">>
          [] OTHER ->
               DemoMode \o <<" (API quota reset pending)", "\n", "\n",
                 "Based on linguistic pattern analysis of the provided ">> \o words
               \o <<"-word text:", "\n", "\n", "Full detection resumes later.">>
      sections ==
        CASE v = "dev" ->
               IF StrLength(text) > 200
               THEN <<Obj(<<Prop(<<"text">>, Str(SplitFirst(text, ".") \o <<".">>)),
                            Prop(<<"reason">>, Str(<<"Opening sentence follows a common AI pattern">>)),
                            Prop(<<"severity">>, Str(<<"Medium">>))>>)>>
               ELSE <<>>
          [] v = "prod" -> <<>>
          [] OTHER ->
               <<Obj(<<Prop(<<"text">>, Str(Substring0(text, 80))),
                       Prop(<<"reason">>, Str(<<"Overly formal sentence structure">>)),
                       Prop(<<"severity">>, Str(<<"Medium">>))>>)>>
  IN Obj(<<Prop(aiProbability, Num(IF long THEN 72 ELSE 34)),
           Prop(humanProbability, Num(IF long THEN 28 ELSE 66)),
           Prop(<<"confidence">>, Str(<<"Medium">>)),
           Prop(explanation, Str(expl)),
           Prop(<<"plagiarism">>,
                Obj(<<Prop(<<"isPlagiarized">>, Bool(FALSE)),
                      Prop(<<"sources">>, Arr(<<>>)),
                      Prop(<<"score">>, Num(12))>>)),
           Prop(<<"credibility">>,
                Obj(<<Prop(<<"rating">>, Str(<<"Unverified">>)),
                      Prop(<<"reason">>, Str(<<"No source URL provided">>))>>)),
           Prop(<<"comparison">>,
                Obj(<<Prop(<<"humanTraits">>, Str(<<"Personal anecdotes">>)),
                      Prop(<<"detectedTraits">>, Str(<<"Consistent structure">>))>>)),
           Prop(<<"suspiciousSections">>, Arr(sections))>>)

mockImageResult(v) ==
  Obj(<<Prop(aiProbability, Num(41)),
        Prop(humanProbability, Num(59)),
        Prop(<<"confidence">>, Str(<<"Medium">>)),
        Prop(explanation, Str(DemoMode \o <<" (API quota reset pending)">>)),
        Prop(<<"watermarkDetected">>, Bool(FALSE)),
        Prop(<<"manipulatedRegions">>,
             Arr(IF v = "lambda"
                 THEN <<Obj(<<Prop(<<"region">>, Str(<<"Background">>)),
                              Prop(<<"issue">>, Str(<<"Slight compression artifact detected">>)),
                              Prop(<<"severity">>, Str(<<"Low">>))>>)>>
                 ELSE <<>>)),
        Prop(<<"reverseSearch">>,
             Obj(<<Prop(<<"found">>, Bool(FALSE)),
                   Prop(<<"similarSources">>, Arr(<<>>))>>))>>)

mockVideoResult(v) ==
  IF v = "lambda"
  THEN Obj(<<Prop(aiProbability, Num(55)),
             Prop(humanProbability, Num(45)),
             Prop(<<"confidence">>, Str(<<"Medium">>)),
             Prop(explanation, Str(DemoMode \o <<" - Video analysis unavailable during quota limit">>)),
             Prop(<<"deepfakeSigns">>, Arr(<<Str(<<"Quota limit reached">>)>>))>>)
  ELSE Obj(<<Prop(aiProbability, Num(18)),
             Prop(humanProbability, Num(82)),
             Prop(<<"confidence">>, Str(<<"Low">>)),
             Prop(explanation, Str(DemoMode \o <<" (API quota reset pending)">>)),
             Prop(<<"deepfakeSigns">>, Arr(<<Str(<<"Demo mode">>)>>))>>)

mockLinkResult(v) ==
  IF v = "lambda"
  THEN Obj(<<Prop(aiProbability, Num(40)),
             Prop(humanProbability, Num(60)),
             Prop(<<"confidence">>, Str(<<"Medium">>)),
             Prop(explanation, Str(DemoMode)),
             Prop(<<"credibilityRating">>, Str(<<"Unverified">>)),
             Prop(<<"isFake">>, Bool(FALSE)),
             Prop(<<"redFlags">>, Arr(<<Str(<<"Quota limit reached">>)>>))>>)
  ELSE Obj(<<Prop(aiProbability, Num(55)),
             Prop(humanProbability, Num(45)),
             Prop(<<"confidence">>, Str(<<"Low">>)),
             Prop(explanation, Str(DemoMode \o <<" (API quota reset pending)">>)),
             Prop(<<"sourceRating">>, Str(<<"Unverified">>)),
             Prop(<<"isFake">>, Bool(FALSE))>>)

mockProfileResult(v) ==
  IF v = "lambda"
  THEN Obj(<<Prop(aiProbability, Num(35)),
             Prop(humanProbability, Num(65)),
             Prop(<<"confidence">>, Str(<<"Medium">>)),
             Prop(explanation, Str(DemoMode)),
             Prop(<<"botProbability">>, Num(22)),
             Prop(<<"isAIInfluencer">>, Bool(FALSE)),
             Prop(<<"redFlags">>, Arr(<<Str(<<"Quota limit reached">>)>>))>>)
  ELSE Obj(<<Prop(<<"isAIInfluencer">>, Bool(FALSE)),
             Prop(<<"botProbability">>, Num(38)),
             Prop(humanProbability, Num(62)),
             Prop(explanation, Str(DemoMode \o <<" (API quota reset pending)">>)),
             Prop(<<"redFlags">>, Arr(<<Str(<<"API quota limit reached">>)>>))>>)

\* -------------------------------------------------------------- the state

VARIABLES
  variant,    \* which of the three servers runs
  db,         \* analysis_history, in insertion order
  seq,        \* the AUTOINCREMENT counter of analysis_history
  clock,      \* CURRENT_TIMESTAMP, in seconds
  inflight,   \* the handlers suspended at their await of the model call
  resp,       \* what the last step sent to its client
  normIn,     \* a model output handed to the normalizer on its own
  normOut,    \* what the normalizer made of normIn
  ui          \* the page of the front end the user is on

vars == <<variant, db, seq, clock, inflight, resp, normIn, normOut, ui>>

\* ------------------------------------------------------- request handlers

\* what a handler does once the model call has settled: the response it sends
\* (the value it hands to res.json) with the rows it inserted before sending
\* it, or the error it throws
Respond(status, value, rows) ==
  [kind |-> "response", status |-> status, value |-> value, rows |-> rows]

Throws(e) == [kind |-> "throw", error |-> e]

\* an error thrown inside the catch block: the async handler's promise rejects
\* and the handler has sent nothing
Unhandled == [kind |-> "unhandled"]

\* res.status(n).json({ error: message })
ErrorBody(message) == Obj(<<Prop(<<"error">>, Str(message))>>)
\* an insert that takes the user from a variable shared by the handlers (the
\* request that has waited longest) instead of from its own request
InsertSharedUser(userEmail, type, content, value) ==
  LET waiting == {k \in DOMAIN inflight : inflight[k].calls > 0}
      first == CHOOSE k \in waiting : \A o \in waiting : k <= o
  IN [user_email |-> Or(IF waiting = {} THEN userEmail ELSE inflight[first].req.userEmail,
                        Str(<<"anonymous">>)).v,
      type |-> type, content |-> content, value |-> value]
\* an insert that stores the userEmail it was given, defaulting only when
\* there is none
InsertGivenUser(userEmail, type, content, value) ==
  [user_email |-> IF userEmail.t = "str" THEN userEmail.v ELSE <<"anonymous">>,
   type |-> type, content |-> content, value |-> value]

\* the parameters of INSERT INTO analysis_history (user_email, type, content, result):
\* userEmail || "anonymous", the type, the content and the value whose
\* JSON.stringify is bound as result
Insert(userEmail, type, content, value) ==
  [user_email |-> Or(userEmail, Str(<<"anonymous">>)).v,
   type |-> type, content |-> content, value |-> value]

\* the value a handler reads from the model's response text
\*   dev, lambda: JSON.parse(response.text || "{}")
\*   prod:        parseJSON(response.text || "")
ReadResult(v, text) ==
  IF v = "prod"
  THEN [ok |-> TRUE, v |-> parseJSON(Or(text, Str(<<>>)).v)]
  ELSE JSONparse(Or(text, Str(<<"{", "}">>)).v)
\* a backfill that keeps the complement inside 0..100
BackfillClamped(result) ==
  IF ~IsNullish(Get(result, aiProbability)) /\ IsNullish(Get(result, humanProbability))
  THEN LET c == Minus100(Get(result, aiProbability))
       IN Put(result, humanProbability,
              IF c.t # "num" THEN c
              ELSE IF c.v < 0 THEN Num(0) ELSE IF c.v > 100 THEN Num(100) ELSE c)
  ELSE result

\* prod: if (result.aiProbability != null && result.humanProbability == null)
\*         result.humanProbability = 100 - result.aiProbability
Backfill(result) ==
  IF ~IsNullish(Get(result, aiProbability)) /\ IsNullish(Get(result, humanProbability))
  THEN Put(result, humanProbability, Minus100(Get(result, aiProbability)))
  ELSE result
\* a server that remembers the rate limit: while the newest stored result is a
\* fallback body, a request is treated as rate-limited whatever its call returns
NormalizeWhileDegraded(v, out, r, backfill) ==
  IF db # <<>> /\ Includes(db[Len(db)].result, <<"Demo Mode">>)
  THEN Throws(Error(Num(429), <<"Too Many Requests">>))
  ELSE IF ~out.ok THEN Throws(out.error)
  ELSE IF ~r.ok THEN Throws(SyntaxError)
  ELSE IF v = "prod" /\ backfill
       THEN IF r.v.t = "null"
            THEN Throws(TypeError(<<"Cannot read properties of null">>))
            ELSE [kind |-> "value", v |-> Backfill(r.v)]
       ELSE [kind |-> "value", v |-> r.v]

\* the first statements of an analysis handler's try block after the await:
\* the parsed result, or the error the model call, the parse or the backfill
\* throws.  r is ReadResult of the response text; backfill tells whether the
\* prod handler has the backfill
Normalize(v, out, r, backfill) ==
  IF ~out.ok THEN Throws(out.error)
  ELSE IF ~r.ok THEN Throws(SyntaxError)
  ELSE IF v = "prod" /\ backfill
       THEN IF r.v.t = "null"
            THEN Throws(TypeError(<<"Cannot read properties of null">>))
            ELSE [kind |-> "value", v |-> Backfill(r.v)]
       ELSE [kind |-> "value", v |-> r.v]

\* a catch block that takes every error for a rate-limit error
CatchEveryErrorAsQuota(error, quota) == quota

\* the catch block of the analysis handlers: quota is what the handler does on a
\* rate-limit error
Catch(error, quota) ==
  IF isQuotaError(error) THEN quota ELSE Respond(500, ErrorBody(error.message), <<>>)

analyzeText(v, req, n, rnd) ==
  LET try ==
        IF n.kind = "throw" THEN n
        ELSE IF req.text.t # "str"
             THEN Throws(TypeError(<<"text", ".", "substring is not a function">>))
             ELSE Respond(200, n.v,
                    <<Insert(req.userEmail, "text", Substring0(req.text.v, 500), n.v)>>)
  IN IF try.kind # "throw" THEN try
     ELSE Catch(try.error,
            IF req.text.t # "str" THEN Unhandled
            ELSE LET mock == mockTextResult(v, req.text.v, rnd)
                 IN Respond(200, mock,
                      IF v = "dev"
                      THEN <<Insert(req.userEmail, "text",
                                    Substring0(req.text.v, 500), mock)>>
                      ELSE <<>>))

\* `Image: ${file.originalname}`; prod writes originalname || "upload"
ImageLabel(v, file) ==
  <<"Image", ":", " ">>
    \o (IF v = "prod"
        THEN Or(Get(file, originalname), Str(<<"upload">>)).v
        ELSE Get(file, originalname).v)

\* result.exif = exifData in strict mode
SetExif(result, exifData) ==
  CASE result.t = "obj" -> [kind |-> "value", v |-> Put(result, exif, exifData)]
    [] result.t = "arr" -> [kind |-> "value", v |-> result]
    [] result.t = "null" -> Throws(TypeError(<<"Cannot set properties of null">>))
    [] OTHER -> Throws(TypeError(<<"Cannot create property exif">>))

analyzeImage(v, req, exifData, n) ==
  LET e == IF n.kind = "throw" THEN n ELSE SetExif(n.v, exifData)
      try ==
        IF e.kind = "throw" THEN e
        ELSE Respond(200, e.v,
               <<Insert(req.userEmail, "image", ImageLabel(v, req.file), e.v)>>)
  IN IF try.kind # "throw" THEN try
     ELSE Catch(try.error,
            LET mock == mockImageResult(v)
            IN Respond(200, mock,
                 IF v = "dev"
                 THEN <<Insert(req.userEmail, "image", ImageLabel(v, req.file), mock)>>
                 ELSE <<>>))

analyzeVideo(v, req, n) ==
  LET try ==
        IF n.kind = "throw" THEN n
        ELSE Respond(200, n.v,
               <<Insert(req.userEmail, "video",
                        <<"Video", ":", " ">> \o Get(req.file, originalname).v, n.v)>>)
  IN IF try.kind # "throw" THEN try
     ELSE Catch(try.error, Respond(200, mockVideoResult(v), <<>>))

analyzeLink(v, req, n) ==
  LET try ==
        IF n.kind = "throw" THEN n
        ELSE Respond(200, n.v, <<Insert(req.userEmail, "link", req.url.v, n.v)>>)
  IN IF try.kind # "throw" THEN try
     ELSE Catch(try.error, Respond(200, mockLinkResult(v), <<>>))

\* the body field the profile handler reads
ProfileField(v, req) == IF v = "lambda" THEN req.url ELSE req.profileUrl

analyzeProfile(v, req, n) ==
  LET try ==
        IF n.kind = "throw" THEN n
        ELSE Respond(200, n.v,
               <<Insert(req.userEmail, "profile", ProfileField(v, req).v, n.v)>>)
  IN IF try.kind # "throw" THEN try
     ELSE Catch(try.error, Respond(200, mockProfileResult(v), <<>>))

\* res.json({ text: response.text }), or what the catch block sends
chat(v, req, out) ==
  IF out.ok THEN Respond(200, Obj(<<Prop(<<"text">>, out.text)>>), <<>>)
  ELSE IF v = "lambda"
       THEN Respond(200, Obj(<<Prop(<<"text">>, Str(<<"I'm currently in demo mode due to API quota limits">>))>>), <<>>)
       ELSE Respond(500, ErrorBody(out.error.message), <<>>)

\* dev: type === 'image' collects the last inlineData part into imageUrl
generate(v, req, out) ==
  IF out.ok
  THEN IF v = "dev" /\ req.genType = Str(<<"image">>)
       THEN Respond(200,
              Obj(<<Prop(<<"imageUrl">>,
                         IF out.inline.t = "str"
                         THEN Str(<<"data", ":", "image/png;base64", ",">> \o out.inline.v)
                         ELSE Str(<<>>))>>), <<>>)
       ELSE Respond(200, Obj(<<Prop(<<"text">>, out.text)>>), <<>>)
  ELSE IF v = "lambda"
       THEN Respond(200, Obj(<<Prop(<<"text">>, Str(<<"Generation unavailable in demo mode">>))>>), <<>>)
       ELSE Respond(500, ErrorBody(out.error.message), <<>>)

compare(v, req, out) ==
  IF out.ok THEN Respond(200, Obj(<<Prop(<<"comparison">>, out.text)>>), <<>>)
  ELSE Respond(200, Obj(<<Prop(<<"comparison">>, Str(<<"Comparison unavailable in demo mode">>))>>), <<>>)

\* the text handler without its `if (!text)` line
ChecksExceptText(v, endpoint) ==
  endpoint \in AnalysisEndpoints \ {"text"} \/ (v = "lambda" /\ endpoint = "chat")

\* the handlers that answer 400 when the field they require is missing; the
\* field; and the message
Checks(v, endpoint) ==
  endpoint \in AnalysisEndpoints \/ (v = "lambda" /\ endpoint = "chat")

Required(v, req) ==
  CASE req.endpoint = "text" -> req.text
    [] req.endpoint \in {"image", "video"} -> req.file
    [] req.endpoint = "link" -> req.url
    [] req.endpoint = "profile" -> ProfileField(v, req)
    [] OTHER -> req.message

RequiredMessage(endpoint) ==
  CASE endpoint = "text" -> <<"Text is required">>
    [] endpoint = "image" -> <<"Image is required">>
    [] endpoint = "video" -> <<"Video is required">>
    [] endpoint = "link" -> <<"URL is required">>
    [] endpoint = "profile" -> <<"Profile URL is required">>
    [] OTHER -> <<"Message required">>

\* the handler's code after its await, by route; r is ReadResult of the
\* response text
Settle(v, entry, out, r, rnd) ==
  LET n == Normalize(v, out, r, entry.req.endpoint # "profile")
  IN
  CASE entry.req.endpoint = "text" -> analyzeText(v, entry.req, n, rnd)
    [] entry.req.endpoint = "image" -> analyzeImage(v, entry.req, entry.exifData, n)
    [] entry.req.endpoint = "video" -> analyzeVideo(v, entry.req, n)
    [] entry.req.endpoint = "link" -> analyzeLink(v, entry.req, n)
    [] entry.req.endpoint = "profile" -> analyzeProfile(v, entry.req, n)
    [] entry.req.endpoint = "chat" -> chat(v, entry.req, out)
    [] entry.req.endpoint = "generate" -> generate(v, entry.req, out)
    [] OTHER -> compare(v, entry.req, out)

\* ------------------------------------------------------------ persistence

\* LIMIT of GET /api/history
HistoryLimit(v) == IF v = "lambda" THEN 50 ELSE 20

\* the rows of user_email = email, ORDER BY created_at DESC.  SQL leaves the
\* order of rows with equal created_at open: tie = "asc" lists them by rising
\* id (a table scan feeding a stable sort), tie = "desc" by falling id
RECURSIVE OrderByCreatedDesc(_, _)
OrderByCreatedDesc(rows, tie) ==
  IF rows = {} THEN <<>>
  ELSE LET first ==
             CHOOSE r \in rows : \A o \in rows :
               \/ r.created_at > o.created_at
               \/ /\ r.created_at = o.created_at
                  /\ IF tie = "asc" THEN r.id <= o.id ELSE r.id >= o.id
       IN <<first>> \o OrderByCreatedDesc(rows \ {first}, tie)

\* SELECT * FROM analysis_history WHERE user_email = ? ORDER BY created_at DESC LIMIT n
SelectHistory(table, email, limit, tie) ==
  LET rows == {table[i] : i \in {j \in 1..Len(table) : table[j].user_email = email}}
      sorted == OrderByCreatedDesc(rows, tie)
  IN SubSeq(sorted, 1, IF Len(sorted) < limit THEN Len(sorted) ELSE limit)

\* ----------------------------------------------------------------- bounds

MaxRows == 1        \* rows and suspended handlers Spec keeps
MaxInFlight == 1    \* handlers suspended at their await at one time
MaxClock == 1       \* seconds that pass
HistSeed == 19      \* rows SpecHist starts with
HistRows == 22      \* rows and suspended handlers SpecHist keeps
ConcInFlight == 2   \* handlers SpecConc lets wait at their await together
ConcRows == 3       \* rows and suspended handlers SpecConc keeps
MaxMessages == 2    \* messages SpecUI lets the chat widget hold
LiveRows == 2       \* rows and suspended handlers SpecLive keeps
MaxCameraCalls == 2 \* getUserMedia calls SpecImage follows
MaxSends == 2       \* messages the user sends in SpecChat
MarkTextLen == 4    \* characters of the text SpecMark highlights
MarkSectionLen == 2 \* characters of a suspicious section
MarkSectionCount == 2   \* suspicious sections of one result

\* ----------------------------------------------------------------- inputs

BlankReq ==
  [endpoint |-> "none", text |-> Undefined, userEmail |-> Undefined,
   file |-> Undefined, url |-> Undefined, profileUrl |-> Undefined,
   message |-> Undefined, genType |-> Undefined, email |-> Undefined]

\* a settled model call: the response text (and, for generate, an inline image
\* part), or the error the client library throws
Returned(text) == [ok |-> TRUE, text |-> text, inline |-> Undefined, error |-> NoError]
ReturnedImage(data) == [ok |-> TRUE, text |-> Undefined, inline |-> Str(data), error |-> NoError]
Failed(e) == [ok |-> FALSE, text |-> Undefined, inline |-> Undefined, error |-> e]

NoOutcome == Returned(Undefined)

NoEntry == [req |-> BlankReq, exifData |-> Undefined, calls |-> 0]

NoResp ==
  [sent |-> FALSE, settled |-> FALSE, status |-> 0, body |-> <<>>, rows |-> <<>>,
   req |-> BlankReq, out |-> NoOutcome, calls |-> 0, raised |-> FALSE]

ShortText == <<"H", "i", ".">>
LongText == <<"H", "i", ".", " ">> \o Rep("a", 497)

UserA == <<"x@a">>
UserB == <<"y@b">>

Fence == <<Backtick, Backtick, Backtick>>

Key(k) == <<"\"">> \o k \o <<"\"">>

\* model outputs
TextBoth ==
  <<"{">> \o Key(aiProbability) \o <<":", "7", "0", ",">>
    \o Key(humanProbability) \o <<":", "3", "0", ",">>
    \o Key(explanation) \o <<":", "\"", "fine", "\"", "}">>
TextAiOnly == <<"{">> \o Key(aiProbability) \o <<":", "7", "0", "}">>
TextHumanOnly == <<"{">> \o Key(humanProbability) \o <<":", "4", "0", "}">>
TextFenced == Fence \o <<"json", "\n">> \o TextAiOnly \o <<"\n">> \o Fence
TextProse == <<"Sorry", ",", " ", "no", " ", "verdict">>
TextNull == <<"null">>
TextTicks ==
  <<"{">> \o Key(explanation) \o <<":", "\"">> \o Fence \o <<"x", "\"", "}">>

ErrStatus429 == Error(Num(429), <<"Too Many Requests">>)
ErrMessage429 == Error(Undefined, <<"got status", ":", " ", "4", "2", "9">>)
ErrExhausted == Error(Undefined, <<"RESOURCE_EXHAUSTED">>)
ErrOther == Error(Num(503), <<"fetch failed">>)

TextOutcomes ==
  {Returned(Str(t)) : t \in {TextBoth, TextAiOnly, TextHumanOnly, TextFenced,
                             TextProse, TextNull, TextTicks}}
    \cup {Returned(Undefined)}
    \cup {Failed(e) : e \in {ErrStatus429, ErrMessage429, ErrExhausted, ErrOther}}

MediaOutcomes ==
  {Returned(Str(t)) : t \in {TextBoth, TextFenced, TextNull}}
    \cup {Failed(e) : e \in {ErrStatus429, ErrExhausted, ErrOther}}

PlainOutcomes ==
  {Returned(Str(<<"Hello">>)), Returned(Undefined), ReturnedImage(<<"QUJD">>),
   Failed(ErrStatus429), Failed(ErrOther)}

Outcomes(endpoint) ==
  CASE endpoint = "text" -> TextOutcomes
    [] endpoint \in AnalysisEndpoints -> MediaOutcomes
    [] OTHER -> PlainOutcomes

\* Math.random() * 0.3 + 0.55, to two decimals, in hundredths
VocabScores == {55, 84}

File(name) == Obj(<<Prop(originalname, Str(name))>>)

\* what exifParser.create(file.buffer).parse() leaves in exifData: the parsed
\* metadata, or {} when it throws
ExifValues == {Obj(<<>>), Obj(<<Prop(<<"tags">>, Obj(<<Prop(<<"Make">>, Str(<<"Canon">>))>>))>>)}

UserEmails == {Undefined, Str(<<>>), Str(UserA)}

Requests ==
  {[BlankReq EXCEPT !.endpoint = "text", !.text = t, !.userEmail = u] :
      t \in {Undefined, Str(<<>>), Str(ShortText), Str(LongText), Num(5)},
      u \in UserEmails}
  \cup {[BlankReq EXCEPT !.endpoint = e, !.file = f, !.userEmail = u] :
      e \in {"image", "video"}, f \in {Undefined, File(<<"a", ".", "png">>)},
      u \in UserEmails}
  \cup {[BlankReq EXCEPT !.endpoint = "link", !.url = l, !.userEmail = u] :
      l \in {Undefined, Str(<<"https", ":", "//x">>)}, u \in UserEmails}
  \cup {[BlankReq EXCEPT !.endpoint = "profile", !.url = l, !.profileUrl = q] :
      l \in {Undefined, Str(<<"https", ":", "//p">>)}, q \in {Undefined, Str(<<"https", ":", "//p">>)}}
  \cup {[BlankReq EXCEPT !.endpoint = "chat", !.message = m] :
      m \in {Undefined, Str(<<"hi">>)}}
  \cup {[BlankReq EXCEPT !.endpoint = "generate", !.genType = g] :
      g \in {Undefined, Str(<<"image">>)}}
  \cup {[BlankReq EXCEPT !.endpoint = "compare"]}

\* ---------------------------------------------------------------- actions
\* the front end before the user has done anything
NoCall == [method |-> "none", path |-> <<>>, fields |-> <<>>]

NoScreen == [shown |-> FALSE, label |-> <<>>, gauge |-> Undefined]

NoUi ==
  [component |-> "none", loading |-> FALSE, result |-> Null, messages |-> <<>>,
   call |-> NoCall, screen |-> NoScreen]

Slots == DOMAIN inflight

Busy == {k \in Slots : inflight[k] # NoEntry}
\* an insert written as INSERT OR REPLACE keyed by nothing: the new rows take
\* the place of the table
AppendedInPlace(table, rows, counter, now) ==
  IF rows = <<>> THEN table
  ELSE [i \in 1..Len(rows) |->
          [id |-> counter + i, user_email |-> rows[i].user_email,
           type |-> rows[i].type, content |-> rows[i].content,
           result |-> Stringify(rows[i].value), created_at |-> now]]

\* db with the rows of a handler appended: id from the AUTOINCREMENT counter,
\* created_at DEFAULT CURRENT_TIMESTAMP
Appended(table, rows, counter, now) ==
  table \o [i \in 1..Len(rows) |->
              [id |-> counter + i, user_email |-> rows[i].user_email,
               type |-> rows[i].type, content |-> rows[i].content,
               result |-> Stringify(rows[i].value), created_at |-> now]]

\* a request arrives: the handler runs up to its first await.  It answers 400
\* when the field it requires is missing, else it starts the model call and
\* suspends.  cap bounds the rows the model keeps.
Receive(req, exifData, cap) ==
  /\ req.endpoint \in Routes(variant) \ {"history"}
  /\ IF Checks(variant, req.endpoint) /\ ~Truthy(Required(variant, req))
     THEN /\ resp' = [NoResp EXCEPT !.sent = TRUE, !.status = 400,
                        !.body = Stringify(ErrorBody(RequiredMessage(req.endpoint))),
                        !.req = req]
          /\ UNCHANGED inflight
     ELSE /\ Busy # Slots
          /\ Len(db) + Cardinality(Busy) < cap
          /\ LET k == CHOOSE k \in Slots \ Busy : \A o \in Slots \ Busy : k <= o
             IN inflight' = [inflight EXCEPT
                               ![k] = [req |-> req, exifData |-> exifData, calls |-> 1]]
          /\ resp' = NoResp
  /\ UNCHANGED <<variant, db, seq, clock, normIn, normOut, ui>>
\* the error db.prepare(...).run() raises when the row cannot be written
SqliteError == Error(Undefined, <<"database or disk is full">>)

InsertRaisesSwallowed(tried, out) ==
  IF tried.kind # "response" \/ tried.rows = <<>> THEN tried
  ELSE [tried EXCEPT !.rows = <<>>]

\* the rest of a handler whose INSERT raises: tried is what the handler does
\* when the INSERT succeeds.  In the try block the INSERT comes before
\* res.json(result), so the error reaches the catch block, which answers it
\* as any error that is no rate limit; the fallback INSERT of the catch block
\* (development server, text and image) comes before res.json(mock) and its
\* error leaves the handler
InsertRaises(tried, out) ==
  IF tried.kind # "response" \/ tried.rows = <<>> THEN tried
  ELSE IF out.ok THEN Catch(SqliteError, tried)
  ELSE Unhandled

\* a handler that calls the model a second time when its first call failed
AfterCallRetryOnce(entry, out) ==
  IF ~out.ok /\ entry.calls < 2 THEN [entry EXCEPT !.calls = 2] ELSE NoEntry

\* what is left of a handler once its model call has settled: every path of
\* the try block and of the catch block ends the handler, none loops back to
\* the call
AfterCall(entry, out) == NoEntry

\* the model call of slot k settles with out and the handler runs to its end.
\* express5: whether the router forwards a rejected handler promise to the
\* default error handler (Express 5) or leaves the request unanswered (Express 4);
\* raises: whether db.prepare(...).run() raises when the handler calls it
SettleCall(k, out, rnd, express5, raises) ==
  /\ k \in Busy
  /\ \E entry \in {inflight[k]} :
     \E r \in {IF out.ok /\ entry.req.endpoint \in AnalysisEndpoints
                THEN ReadResult(variant, out.text) ELSE Fail} :
     \E tried \in {Settle(variant, entry, out, r, rnd)} :
     \E eff \in {IF raises THEN InsertRaises(tried, out) ELSE tried} :
     \E raised \in {raises /\ tried.kind = "response" /\ tried.rows # <<>>} :
        IF eff.kind = "response"
        THEN /\ db' = Appended(db, eff.rows, seq, clock)
             /\ seq' = seq + Len(eff.rows)
             /\ resp' = [NoResp EXCEPT !.sent = TRUE, !.settled = TRUE,
                           !.status = eff.status, !.body = Stringify(eff.value),
                           !.req = entry.req, !.out = out,
                           !.calls = entry.calls, !.raised = raised]
        ELSE /\ UNCHANGED <<db, seq>>
             /\ resp' = IF express5
                        THEN [NoResp EXCEPT !.sent = TRUE, !.settled = TRUE,
                                !.status = 500, !.body = <<"Internal Server Error">>,
                                !.req = entry.req, !.out = out, !.calls = entry.calls, !.raised = raised]
                        ELSE [NoResp EXCEPT !.settled = TRUE,
                                !.req = entry.req, !.out = out, !.calls = entry.calls, !.raised = raised]
  /\ inflight' = [inflight EXCEPT ![k] = AfterCall(inflight[k], out)]
  /\ UNCHANGED <<variant, clock, normIn, normOut, ui>>

\* GET /api/history?email=
History(email, tie) ==
  /\ resp' = [NoResp EXCEPT !.sent = TRUE, !.status = 200,
                !.rows = SelectHistory(db, Or(email, Str(<<"anonymous">>)).v,
                                       HistoryLimit(variant), tie),
                !.req = [BlankReq EXCEPT !.endpoint = "history", !.email = email]]
  /\ UNCHANGED <<variant, db, seq, clock, inflight, normIn, normOut, ui>>

\* a second passes
Tick ==
  /\ clock < MaxClock
  /\ clock' = clock + 1
  /\ resp' = NoResp
  /\ UNCHANGED <<variant, db, seq, inflight, normIn, normOut, ui>>

NoInput == [kind |-> "none", text |-> <<>>, obj |-> Undefined]

NoNorm == [by |-> "none", ok |-> TRUE, v |-> Undefined]

Init ==
  /\ variant \in Variants
  /\ db = <<>>
  /\ seq = 0
  /\ clock = 0
  /\ inflight = [k \in 1..MaxInFlight |-> NoEntry]
  /\ resp = NoResp
  /\ normIn = NoInput
  /\ normOut = NoNorm
  /\ ui = NoUi

Next ==
  \/ \E req \in Requests :
       \E x \in (IF req.endpoint = "image" THEN ExifValues ELSE {Undefined}) :
         Receive(req, x, MaxRows)
  \/ \E k \in Slots : \E out \in Outcomes(inflight[k].req.endpoint) :
       \E rnd \in (IF variant = "dev" /\ inflight[k].req.endpoint = "text" /\ ~out.ok
                   THEN VocabScores ELSE {55}) :
         \E express5 \in (IF inflight[k].req.endpoint = "text" /\ ~out.ok
                          THEN BOOLEAN ELSE {FALSE}) :
           SettleCall(k, out, rnd, express5, FALSE)
  \/ \E email \in {Undefined, Str(UserA), Str(UserB)} : \E tie \in {"asc", "desc"} :
       History(email, tie)
  \/ Tick

Spec == Init /\ [][Next]_vars

\* ------------------------------------------- the normalizer on its own

\* a serialization inside Markdown code fences, with white space around them
Wrap(style, s) ==
  CASE style = "fence" -> Fence \o s \o Fence
    [] style = "json" -> Fence \o <<"json", "\n">> \o s \o <<"\n">> \o Fence
    [] style = "JSON" ->
         <<"\n">> \o Fence \o <<"JSON", " ">> \o s \o <<" ", "\n">> \o Fence \o <<"\n">>
    [] OTHER -> s

WrapStyles == {"fence", "json", "JSON"}

ParseValues ==
  {Num(0), Num(70), Str(<<>>), Str(<<"fine">>), Str(<<"a", "\"", "b">>),
   Str(<<"use", " ">> \o Fence \o <<"js">>), Str(<<"{", "x", "}">>),
   Bool(TRUE), Null, Arr(<<Num(1), Str(<<"b">>)>>), Obj(<<Prop(<<"k">>, Num(2))>>)}

ParseObjects ==
  {Obj(<<>>)}
    \cup {Obj(<<Prop(explanation, x)>>) : x \in ParseValues}
    \cup {Obj(<<Prop(aiProbability, Num(70)), Prop(explanation, x)>>) : x \in ParseValues}

\* model outputs that hold no parseable JSON object
NonJsonTexts ==
  {TextProse, <<>>, <<" ">>, TextNull,
   <<"{">> \o Key(aiProbability) \o <<":", "7", "0">>,
   <<"}", " ", "{">>,
   <<"{", "not", " ", "json", "}">>,
   <<"Verdict", ":", " ", "{", "human", "}">>}

ParseInputs ==
  {[kind |-> "raw", text |-> Stringify(o), obj |-> o] : o \in ParseObjects}
    \cup {[kind |-> "wrapped", text |-> Wrap(w, Stringify(o)), obj |-> o] :
            o \in ParseObjects, w \in WrapStyles}
    \cup {[kind |-> "nonjson", text |-> t, obj |-> Undefined] : t \in NonJsonTexts}

\* the handler reads the model's response text normIn.text
ReadOutput ==
  /\ normIn # NoInput
  /\ normOut = NoNorm
  /\ \E r \in {ReadResult(variant, Str(normIn.text))} :
       normOut' = [by |-> variant, ok |-> r.ok, v |-> IF r.ok THEN r.v ELSE Undefined]
  /\ UNCHANGED <<variant, db, seq, clock, inflight, resp, normIn, ui>>

InitParse ==
  /\ variant \in Variants
  /\ db = <<>>
  /\ seq = 0
  /\ clock = 0
  /\ inflight = [k \in 1..MaxInFlight |-> NoEntry]
  /\ resp = NoResp
  /\ normIn \in ParseInputs
  /\ normOut = NoNorm
  /\ ui = NoUi

NextParse == ReadOutput

SpecParse == InitParse /\ [][NextParse]_vars

\* ------------------------------------------------- a table with a history

\* the rows HistSeed earlier text analyses of UserA left, all in second 0
SeedRows ==
  Appended(<<>>,
           [i \in 1..HistSeed |->
              Insert(Str(UserA), "text", Substring0(ShortText, 500),
                     parseJSON(TextBoth))],
           0, 0)

HistRequests ==
  {[BlankReq EXCEPT !.endpoint = "text", !.text = Str(ShortText), !.userEmail = u] :
      u \in {Str(UserA), Str(UserB)}}

HistOutcomes == {Returned(Str(TextBoth)), Failed(ErrStatus429)}

InitHist ==
  /\ variant \in Variants
  /\ db = SeedRows
  /\ seq = HistSeed
  /\ clock = 0
  /\ inflight = [k \in 1..MaxInFlight |-> NoEntry]
  /\ resp = NoResp
  /\ normIn = NoInput
  /\ normOut = NoNorm
  /\ ui = NoUi

NextHist ==
  \/ \E req \in HistRequests : Receive(req, Undefined, HistRows)
  \/ \E k \in Slots : \E out \in HistOutcomes : SettleCall(k, out, 55, FALSE, FALSE)
  \/ \E email \in {Undefined, Str(UserA), Str(UserB)} : \E tie \in {"asc", "desc"} :
       History(email, tie)
  \/ Tick

SpecHist == InitHist /\ [][NextHist]_vars

\* ------------------------------------------- handlers that wait together
\* Two analysis handlers are suspended at their model calls at the same time
\* and their calls settle in either order.

OtherText == <<"Y", "o", "!">>

TextOther ==
  <<"{">> \o Key(aiProbability) \o <<":", "1", "0", ",">>
    \o Key(humanProbability) \o <<":", "9", "0", ",">>
    \o Key(explanation) \o <<":", "\"", "calm", "\"", "}">>

ConcRequests ==
  {[BlankReq EXCEPT !.endpoint = "text", !.text = Str(ShortText), !.userEmail = Str(UserA)],
   [BlankReq EXCEPT !.endpoint = "text", !.text = Str(OtherText), !.userEmail = Str(UserB)],
   [BlankReq EXCEPT !.endpoint = "image", !.file = File(<<"b", ".", "png">>),
                    !.userEmail = Undefined]}

ConcOutcomes == {Returned(Str(TextBoth)), Returned(Str(TextOther)), Failed(ErrStatus429)}

InitConc ==
  /\ variant \in Variants
  /\ db = <<>>
  /\ seq = 0
  /\ clock = 0
  /\ inflight = [k \in 1..ConcInFlight |-> NoEntry]
  /\ resp = NoResp
  /\ normIn = NoInput
  /\ normOut = NoNorm
  /\ ui = NoUi

NextConc ==
  \/ \E req \in ConcRequests : \E exifData \in ExifValues : Receive(req, exifData, ConcRows)
  \/ \E k \in Slots : \E out \in ConcOutcomes : SettleCall(k, out, 55, FALSE, FALSE)
  \/ Tick

SpecConc == InitConc /\ [][NextConc]_vars

\* ---------------------------------------------------------- the front end
\* The React pages that call the API and the part of ResultDisplay that
\* draws the verdict banner and the gauge.

\* the path and the method each route is registered under
RoutePath(endpoint) ==
  IF endpoint \in AnalysisEndpoints THEN <<"/api", "/analyze/", endpoint>>
  ELSE <<"/api", "/", endpoint>>

RouteMethod(endpoint) == IF endpoint = "history" THEN "GET" ELSE "POST"

\* the names the handler of a route reads: the members of req.body it
\* destructures, the field upload.single() takes the file from, and for
\* history the query parameter
Reads(v, endpoint) ==
  CASE endpoint = "text" -> {<<"text">>, <<"userEmail">>, <<"language">>}
    [] endpoint = "image" -> {<<"image">>, <<"userEmail">>}
    [] endpoint = "video" -> {<<"video">>, <<"userEmail">>}
    [] endpoint = "link" -> {<<"url">>, <<"userEmail">>}
    [] endpoint = "profile" ->
         IF v = "lambda" THEN {<<"url">>, <<"platform">>, <<"userEmail">>}
         ELSE {<<"profileUrl">>, <<"userEmail">>}
    [] endpoint = "chat" ->
         IF v = "dev" THEN {<<"message">>, <<"history">>} ELSE {<<"message">>}
    [] endpoint = "generate" ->
         IF v = "dev" THEN {<<"prompt">>, <<"type">>} ELSE {<<"prompt">>}
    [] endpoint = "compare" -> {<<"type">>, <<"content1">>, <<"content2">>}
    [] OTHER -> {<<"email">>}

AnalysisPages ==
  {"TextVerifier", "ImageVerifier", "VideoVerifier", "LinkVerifier", "ProfileVerifier"}

Components == AnalysisPages \cup {"Chatbot", "PromptLab"}

\* x ?? y
Coalesce(x, y) == IF IsNullish(x) THEN y ELSE x

\* x >= n for a number n: x converted to a number, false when that is NaN
AtLeast(x, n) == LET m == ToNumber(x) IN m.t = "num" /\ m.v >= n

\* a banner that calls 70 itself only suspicious
VerdictAbove(aiScore) ==
  IF AtLeast(aiScore, 71) THEN <<"LIKELY AI / FAKE">>
  ELSE IF AtLeast(aiScore, 40) THEN <<"SUSPICIOUS">>
  ELSE <<"LIKELY AUTHENTIC">>

\* verdictColor.label
Verdict(aiScore) ==
  IF AtLeast(aiScore, 70) THEN <<"LIKELY AI / FAKE">>
  ELSE IF AtLeast(aiScore, 40) THEN <<"SUSPICIOUS">>
  ELSE <<"LIKELY AUTHENTIC">>

\* the banner and the gauge of <ResultDisplay result={result} />
ResultDisplay(result) ==
  LET score == Coalesce(Get(result, humanProbability), Num(0))
      aiScore == Coalesce(Get(result, aiProbability), Num(0))
  IN [shown |-> TRUE, label |-> Verdict(aiScore), gauge |-> score]

\* {result && <ResultDisplay result={result} ... />}
Render(c, result) ==
  IF c \in AnalysisPages /\ Truthy(result) THEN ResultDisplay(result) ELSE NoScreen

\* s.split(sep)
RECURSIVE Split(_, _)
Split(s, sep) ==
  LET at == {i \in 1..Len(s) : s[i] = sep}
  IN IF at = {} THEN <<s>>
     ELSE LET i == CHOOSE i \in at : \A j \in at : i <= j
          IN <<SubSeq(s, 1, i - 1)>> \o Split(SubSeq(s, i + 1, Len(s)), sep)

\* url.split('/').filter(Boolean).pop() ?? url
Username(url) ==
  LET parts == SelectSeq(Split(url, "/"), LAMBDA p : p # <<>>)
  IN IF parts = <<>> THEN url ELSE parts[Len(parts)]

Platform(url) ==
  IF Includes(url, <<"instagram">>) THEN <<"instagram">>
  ELSE IF Includes(url, <<"facebook">>) THEN <<"facebook">>
  ELSE IF Includes(url, <<"twitter">>) \/ Includes(url, <<"x", ".", "com">>) THEN <<"twitter">>
  ELSE <<"unknown">>

DetectPath(kind) == <<"/api", "/detect/", kind>>

\* the fetch each page issues: method, path and the fields of its JSON body
\* or of its FormData
Fetches(c, input) ==
  CASE c \in {"TextVerifier", "Chatbot", "PromptLab"} ->
         [method |-> "POST", path |-> DetectPath("text"),
          fields |-> <<Prop(<<"text">>, input)>>]
    [] c = "ImageVerifier" ->
         [method |-> "POST", path |-> DetectPath("image"),
          fields |-> <<Prop(<<"file">>, input)>>]
    [] c = "VideoVerifier" ->
         [method |-> "POST", path |-> DetectPath("video"),
          fields |-> <<Prop(<<"file">>, input)>>]
    [] c = "LinkVerifier" ->
         [method |-> "POST", path |-> DetectPath("text"),
          fields |-> <<Prop(<<"text">>,
                            Str(<<"Verify the following URL for authenticity and fake news: ">>
                                  \o input.v)),
                       Prop(<<"url">>, input)>>]
    [] OTHER ->
         [method |-> "POST", path |-> DetectPath("profile"),
          fields |-> <<Prop(<<"username">>, Str(Username(input.v))),
                       Prop(<<"platform">>, Str(Platform(input.v)))>>]

\* what the user has put into the page when pressing its button
ProfileUrl == <<"https", ":", "/", "/", "instagram", ".", "com", "/", "ana", "/">>

PageInputs(c) ==
  CASE c \in {"TextVerifier", "Chatbot"} -> {Str(<<>>), Str(<<" ">>), Str(ShortText)}
    [] c \in {"ImageVerifier", "VideoVerifier"} -> {Null, File(<<"a", ".", "png">>)}
    [] c = "PromptLab" -> {Str(<<"a cat">>)}
    [] c = "LinkVerifier" -> {Str(<<"https", ":", "//x">>)}
    [] OTHER -> {Str(ProfileUrl), Str(<<"ana">>)}

\* the early return of the handler and the disabled state of its button
CanSubmit(c, input) ==
  CASE c \in {"TextVerifier", "Chatbot"} -> Trim(input.v) # <<>>
    [] OTHER -> Truthy(input)

TextForty ==
  <<"{">> \o Key(aiProbability) \o <<":", "4", "0", ",">>
    \o Key(humanProbability) \o <<":", "6", "0", "}">>

\* what fetch resolves to: a response of the server, or a rejection when the
\* server cannot be reached
Http(status, body) == [kind |-> "response", status |-> status, body |-> body]

Rejected == [kind |-> "rejected", status |-> 0, body |-> <<>>]

Answers ==
  {Http(200, Stringify(JSONparse(t).v)) :
     t \in {TextBoth, TextOther, TextForty, TextAiOnly, TextHumanOnly, TextNull}}
    \cup {Http(400, Stringify(ErrorBody(RequiredMessage(e)))) : e \in {"text", "image"}}
    \cup {Http(500, Stringify(ErrorBody(ErrOther.message))),
          Http(500, <<"Internal Server Error">>),
          Http(404, <<"<!DOCTYPE html>", "Cannot POST">>),
          Rejected}

\* the user presses the button of page c
Submit(c, input) ==
  /\ ~ui.loading
  /\ CanSubmit(c, input)
  /\ c = "Chatbot" => Len(ui.messages) < MaxMessages
  /\ \E result \in {IF c = ui.component /\ c # "ImageVerifier" THEN ui.result ELSE Null} :
       ui' = [component |-> c, loading |-> TRUE, result |-> result,
              messages |-> IF c = "Chatbot"
                           THEN Append(ui.messages, [role |-> "user", text |-> input])
                           ELSE ui.messages,
              call |-> Fetches(c, input),
              screen |-> Render(c, result)]
  /\ UNCHANGED <<variant, db, seq, clock, inflight, resp, normIn, normOut>>

\* the fetch of the page settles and the rest of its handler runs: res.json(),
\* setResult or setMessages, the catch that only logs, and finally
\* setLoading(false)
Answer(http) ==
  /\ ui.loading
  /\ \E data \in {IF http.kind = "rejected" THEN Fail ELSE JSONparse(http.body)} :
     \E c \in {ui.component} :
       IF ~data.ok \/ (c \notin AnalysisPages /\ IsNullish(data.v))
       THEN ui' = [ui EXCEPT !.loading = FALSE, !.call = NoCall]
       ELSE IF c = "Chatbot"
       THEN ui' = [ui EXCEPT !.loading = FALSE, !.call = NoCall,
                     !.messages = Append(@,
                        [role |-> "ai",
                         text |-> Coalesce(Get(data.v, explanation),
                                    Coalesce(Get(data.v, <<"summary">>),
                                      Str(<<"Analysis complete. Please use the dedicated analysis pages for detailed results.">>)))])]
       ELSE IF c = "PromptLab"
       THEN ui' = [ui EXCEPT !.loading = FALSE, !.call = NoCall,
                     !.result = Obj(<<Prop(<<"text">>,
                                   Coalesce(Get(data.v, explanation),
                                            Str(<<"Analysis complete.">>)))>>)]
       ELSE ui' = [ui EXCEPT !.loading = FALSE, !.call = NoCall,
                     !.result = data.v, !.screen = Render(c, data.v)]
  /\ UNCHANGED <<variant, db, seq, clock, inflight, resp, normIn, normOut>>

InitUI ==
  /\ variant \in Variants
  /\ db = <<>>
  /\ seq = 0
  /\ clock = 0
  /\ inflight = [k \in 1..MaxInFlight |-> NoEntry]
  /\ resp = NoResp
  /\ normIn = NoInput
  /\ normOut = NoNorm
  /\ ui = NoUi

NextUI ==
  \/ \E c \in Components : \E input \in PageInputs(c) : Submit(c, input)
  \/ \E http \in Answers : Answer(http)

SpecUI == InitUI /\ [][NextUI]_vars
\* ------------------------------------------------ the live path on its own
\* One request at a time, with model outputs whose probabilities are out of
\* range, null or missing, and outputs that parse to something else than an
\* object.
\* ------------------------------------------------------- HighlightedText
\* The component that marks the suspicious sections in the submitted text.
\* While it renders, ui holds its props, the sections still to process and
\* the parts built so far; a part is a string or a <span> around a match.

StringPart(s) == [span |-> FALSE, s |-> s]
SpanPart(s) == [span |-> TRUE, s |-> s]

\* part.indexOf(pat): the first index (from 0) where pat occurs, or -1
IndexOf(s, pat) ==
  LET at == {i \in 0..(Len(s) - Len(pat)) : SubSeq(s, i + 1, i + Len(pat)) = pat}
  IN IF at = {} THEN 0 - 1 ELSE CHOOSE i \in at : \A j \in at : i <= j

\* the sections in the order they were given
Unsorted(sections) == sections

\* [...suspiciousSections].sort((a, b) => b.text.length - a.text.length):
\* longest first, sections of equal length in the order given
RECURSIVE SortByLength(_)
SortByLength(sections) ==
  IF sections = <<>> THEN <<>>
  ELSE LET longest == CHOOSE i \in 1..Len(sections) :
                        /\ \A j \in 1..Len(sections) :
                             Len(sections[j].text) <= Len(sections[i].text)
                        /\ \A j \in 1..(i - 1) :
                             Len(sections[j].text) < Len(sections[i].text)
       IN <<sections[longest]>>
            \o SortByLength(SubSeq(sections, 1, longest - 1)
                              \o SubSeq(sections, longest + 1, Len(sections)))

\* a split that starts the rest at the match instead of behind it
SplitOverlapping(part, index, n) ==
  (IF index > 0 THEN <<StringPart(SubSeq(part, 1, index))>> ELSE <<>>)
    \o <<SpanPart(SubSeq(part, index + 1, index + n))>>
    \o (IF index < Len(part) THEN <<StringPart(SubSeq(part, index + 1, Len(part)))>>
        ELSE <<>>)

\* before, <span>match</span>, after; an empty before or after is left out
SplitPart(part, index, n) ==
  (IF index > 0 THEN <<StringPart(SubSeq(part, 1, index))>> ELSE <<>>)
    \o <<SpanPart(SubSeq(part, index + 1, index + n))>>
    \o (IF index + n < Len(part)
        THEN <<StringPart(SubSeq(part, index + n + 1, Len(part)))>> ELSE <<>>)

\* the body of parts.forEach for one part
MarkPart(part, section) ==
  IF part.span THEN <<part>>
  ELSE LET index == IndexOf(part.s, section.text)
       IN IF index = 0 - 1 THEN <<part>>
          ELSE SplitPart(part.s, index, Len(section.text))

\* the body of sortedSections.forEach for one section
MarkSection(parts, section) ==
  Concat([i \in 1..Len(parts) |-> MarkPart(parts[i], section)])

Letters == {"a", "b"}

Strings(n) == UNION {[1..m -> Letters] : m \in 0..n}

MarkTexts == Strings(MarkTextLen)

MarkSections ==
  LET section == {[text |-> s] : s \in Strings(MarkSectionLen)}
  IN UNION {[1..m -> section] : m \in 0..MarkSectionCount}

InitMark ==
  /\ variant \in {"dev"}
  /\ db = <<>>
  /\ seq = 0
  /\ clock = 0
  /\ inflight = [k \in 1..MaxInFlight |-> NoEntry]
  /\ resp = NoResp
  /\ normIn = NoInput
  /\ normOut = NoNorm
  /\ \E text \in MarkTexts : \E sections \in MarkSections :
       ui = [component |-> "HighlightedText", text |-> text,
             suspiciousSections |-> sections, sortedSections |-> <<>>,
             parts |-> <<>>, pc |-> "start"]

\* the early return for no sections; otherwise the sort and parts = [text]
Begin ==
  /\ ui.pc = "start"
  /\ ui' = IF ui.suspiciousSections = <<>>
           THEN [ui EXCEPT !.parts = <<StringPart(ui.text)>>, !.pc = "done"]
           ELSE [ui EXCEPT !.sortedSections = SortByLength(ui.suspiciousSections),
                           !.parts = <<StringPart(ui.text)>>, !.pc = "forEach"]
  /\ UNCHANGED <<variant, db, seq, clock, inflight, resp, normIn, normOut>>

\* one turn of sortedSections.forEach; after the last one the parts are returned
MarkNext ==
  /\ ui.pc = "forEach"
  /\ ui' = [ui EXCEPT !.parts = MarkSection(ui.parts, Head(ui.sortedSections)),
                      !.sortedSections = Tail(ui.sortedSections),
                      !.pc = IF Len(ui.sortedSections) = 1 THEN "done" ELSE "forEach"]
  /\ UNCHANGED <<variant, db, seq, clock, inflight, resp, normIn, normOut>>

NextMark == Begin \/ MarkNext

SpecMark == InitMark /\ [][NextMark]_vars
\* --------------------------------------------------------- ImageVerifier
\* The image page with its two modes.  ui holds its useState values, the ref
\* to the camera stream, the camera streams whose tracks are live, the
\* getUserMedia calls and the analyze call that have not settled yet, and
\* cameraWanted: whether the user's last camera action was to start it.

FileA == File(<<"a", ".", "png">>)
FileB == File(<<"b", ".", "png">>)
Captured == File(<<"capture-", "1700000000000", ".jpg">>)

NoStream == 0

ImageUi ==
  [component |-> "ImageVerifier", mounted |-> TRUE, mode |-> "upload",
   file |-> Null, preview |-> Null, loading |-> FALSE, result |-> Null,
   cameraActive |-> FALSE, cameraError |-> Null, streamRef |-> NoStream,
   live |-> {}, opened |-> 0, awaitingCamera |-> 0, awaitingAnalyze |-> Null,
   cameraWanted |-> FALSE]

\* what the server makes of an uploaded file: a verdict that names it
VerdictFor(file) ==
  Obj(<<Prop(aiProbability, Num(70)), Prop(humanProbability, Num(30)),
        Prop(explanation, Str(Get(file, originalname).v))>>)

\* setFile(null); setPreview(null); setResult(null)
Reset(u) == [u EXCEPT !.file = Null, !.preview = Null, !.result = Null]

\* streamRef.current?.getTracks().forEach(t => t.stop());
\* streamRef.current = null; setCameraActive(false)
StopCamera(u) ==
  [u EXCEPT !.live = @ \ {u.streamRef}, !.streamRef = NoStream, !.cameraActive = FALSE]

\* startCamera up to its await
BeginCamera(u) ==
  [u EXCEPT !.cameraError = Null, !.awaitingCamera = @ + 1, !.cameraWanted = TRUE]

\* <input type="file" onChange={onFileChange}>, shown in upload mode while
\* there is no preview
onFileChange(f) ==
  /\ ui.mounted /\ ui.mode = "upload" /\ ui.preview = Null
  /\ ui' = [ui EXCEPT !.file = f, !.preview = f, !.result = Null]
  /\ UNCHANGED <<variant, db, seq, clock, inflight, resp, normIn, normOut>>

\* the reset button on the preview in upload mode
reset ==
  /\ ui.mounted /\ ui.mode = "upload" /\ ui.preview # Null
  /\ ui' = Reset(ui)
  /\ UNCHANGED <<variant, db, seq, clock, inflight, resp, normIn, normOut>>

\* a button of the mode switcher: setMode(m); reset(); stopCamera()
SwitchMode(m) ==
  /\ ui.mounted
  /\ ui' = [StopCamera(Reset(ui)) EXCEPT !.mode = m, !.cameraWanted = FALSE]
  /\ UNCHANGED <<variant, db, seq, clock, inflight, resp, normIn, normOut>>

\* the Start Camera button, shown while !cameraActive && !preview
startCamera ==
  /\ ui.mounted /\ ui.mode = "camera" /\ ~ui.cameraActive /\ ui.preview = Null
  /\ ui.awaitingCamera + ui.opened < MaxCameraCalls
  /\ ui' = BeginCamera(ui)
  /\ UNCHANGED <<variant, db, seq, clock, inflight, resp, normIn, normOut>>

\* the Retake button, shown while preview && !cameraActive: reset(); startCamera()
Retake ==
  /\ ui.mounted /\ ui.mode = "camera" /\ ~ui.cameraActive /\ ui.preview # Null
  /\ ui.awaitingCamera + ui.opened < MaxCameraCalls
  /\ ui' = BeginCamera(Reset(ui))
  /\ UNCHANGED <<variant, db, seq, clock, inflight, resp, normIn, normOut>>

\* getUserMedia resolves with a new stream and startCamera runs on:
\* streamRef.current = stream; setCameraActive(true), which an unmounted
\* component ignores
CameraGranted ==
  /\ ui.awaitingCamera > 0
  /\ LET stream == ui.opened + 1
     IN ui' = [ui EXCEPT !.awaitingCamera = @ - 1, !.opened = stream,
                         !.live = @ \cup {stream}, !.streamRef = stream,
                         !.cameraActive = ui.mounted]
  /\ UNCHANGED <<variant, db, seq, clock, inflight, resp, normIn, normOut>>

\* getUserMedia rejects and the catch of startCamera sets cameraError
CameraDenied ==
  /\ ui.awaitingCamera > 0
  /\ ui' = [ui EXCEPT !.awaitingCamera = @ - 1,
                      !.cameraError = IF ui.mounted
                                      THEN Str(<<"Camera permission denied. Please allow access.">>)
                                      ELSE @]
  /\ UNCHANGED <<variant, db, seq, clock, inflight, resp, normIn, normOut>>

\* the Cancel button, shown while cameraActive
Cancel ==
  /\ ui.mounted /\ ui.mode = "camera" /\ ui.cameraActive
  /\ ui' = [StopCamera(ui) EXCEPT !.cameraWanted = FALSE]
  /\ UNCHANGED <<variant, db, seq, clock, inflight, resp, normIn, normOut>>

\* the Capture Photo button, shown while cameraActive, with the toBlob
\* callback: setFile(captured); setPreview(...); setResult(null); stopCamera()
capturePhoto ==
  /\ ui.mounted /\ ui.mode = "camera" /\ ui.cameraActive
  /\ ui' = [StopCamera([ui EXCEPT !.file = Captured, !.preview = Captured,
                                  !.result = Null])
              EXCEPT !.cameraWanted = FALSE]
  /\ UNCHANGED <<variant, db, seq, clock, inflight, resp, normIn, normOut>>

\* the page is left: the cleanup of useEffect runs stopCamera
Unmount ==
  /\ ui.mounted
  /\ ui' = [StopCamera(ui) EXCEPT !.mounted = FALSE, !.cameraWanted = FALSE]
  /\ UNCHANGED <<variant, db, seq, clock, inflight, resp, normIn, normOut>>

\* analyze up to its await: the button is shown with a preview (in camera mode
\* while !cameraActive) and disabled while loading (in upload mode also
\* without a file)
analyze ==
  /\ ui.mounted /\ ui.preview # Null /\ ~ui.loading /\ ui.file # Null
  /\ ui.mode = "camera" => ~ui.cameraActive
  /\ ui' = [ui EXCEPT !.loading = TRUE, !.result = Null, !.awaitingAnalyze = ui.file]
  /\ UNCHANGED <<variant, db, seq, clock, inflight, resp, normIn, normOut>>

\* the fetch of analyze settles: setResult(await res.json()), or the catch
\* that logs; finally setLoading(false)
analyzeSettles(ok) ==
  /\ ui.mounted /\ ui.awaitingAnalyze # Null
  /\ ui' = [ui EXCEPT !.awaitingAnalyze = Null, !.loading = FALSE,
                      !.result = IF ok
                                 THEN JSONparse(Stringify(VerdictFor(ui.awaitingAnalyze))).v
                                 ELSE @]
  /\ UNCHANGED <<variant, db, seq, clock, inflight, resp, normIn, normOut>>

InitImage ==
  /\ variant \in {"dev"}
  /\ db = <<>>
  /\ seq = 0
  /\ clock = 0
  /\ inflight = [k \in 1..MaxInFlight |-> NoEntry]
  /\ resp = NoResp
  /\ normIn = NoInput
  /\ normOut = NoNorm
  /\ ui = ImageUi

NextImage ==
  \/ \E f \in {FileA, FileB} : onFileChange(f)
  \/ reset
  \/ \E m \in {"upload", "camera"} : SwitchMode(m)
  \/ startCamera
  \/ Retake
  \/ CameraGranted
  \/ CameraDenied
  \/ Cancel
  \/ capturePhoto
  \/ Unmount
  \/ analyze
  \/ \E ok \in BOOLEAN : analyzeSettles(ok)

SpecImage == InitImage /\ [][NextImage]_vars
\* --------------------------------------------------------------- Chatbot
\* The chat widget, whose input stays enabled while a request is in flight.
\* ui holds its useState values and the sendMessage calls that wait at their
\* fetch, each with the message it sent.

ChatUi ==
  [component |-> "Chatbot", messages |-> <<>>, input |-> <<>>, loading |-> FALSE,
   awaiting |-> {}, sends |-> 0]

ChatInputs == {<<>>, <<" ">>, <<"one">>, <<"two">>}

\* what the server answers to a message: an explanation that quotes it
ReplyTo(text) == Obj(<<Prop(explanation, Str(<<"On ">> \o text))>>)

\* the user types into the input
Type(text) ==
  /\ ui.input # text
  /\ ui' = [ui EXCEPT !.input = text]
  /\ UNCHANGED <<variant, db, seq, clock, inflight, resp, normIn, normOut>>

\* sendMessage up to its await fetch
sendMessage ==
  /\ Trim(ui.input) # <<>>
  /\ ui.sends < MaxSends
  /\ ui' = [ui EXCEPT !.messages = Append(@, [role |-> "user", text |-> Str(ui.input)]),
                      !.input = <<>>,
                      !.loading = TRUE,
                      !.sends = @ + 1,
                      !.awaiting = @ \cup {[id |-> ui.sends + 1, text |-> ui.input]}]
  /\ UNCHANGED <<variant, db, seq, clock, inflight, resp, normIn, normOut>>

\* the fetch of one sendMessage settles and the call runs on: the reply is
\* appended, or the catch logs; finally setLoading(false)
sendMessageSettles(call, http) ==
  /\ call \in ui.awaiting
  /\ \E data \in {IF http.kind = "rejected" THEN Fail ELSE JSONparse(http.body)} :
       ui' = [ui EXCEPT
                !.awaiting = @ \ {call},
                !.loading = FALSE,
                !.messages =
                  IF ~data.ok \/ IsNullish(data.v) THEN @
                  ELSE Append(@,
                         [role |-> "ai",
                          text |-> Coalesce(Get(data.v, explanation),
                                     Coalesce(Get(data.v, <<"summary">>),
                                       Str(<<"Analysis complete. Please use the dedicated analysis pages for detailed results.">>)))])]
  /\ UNCHANGED <<variant, db, seq, clock, inflight, resp, normIn, normOut>>

InitChat ==
  /\ variant \in {"dev"}
  /\ db = <<>>
  /\ seq = 0
  /\ clock = 0
  /\ inflight = [k \in 1..MaxInFlight |-> NoEntry]
  /\ resp = NoResp
  /\ normIn = NoInput
  /\ normOut = NoNorm
  /\ ui = ChatUi

NextChat ==
  \/ \E text \in ChatInputs : Type(text)
  \/ sendMessage
  \/ \E call \in ui.awaiting :
       \E http \in {Http(200, Stringify(ReplyTo(call.text))), Rejected} :
         sendMessageSettles(call, http)

SpecChat == InitChat /\ [][NextChat]_vars

TextOver ==
  <<"{">> \o Key(aiProbability) \o <<":", "1", "5", "0", ",">>
    \o Key(<<"confidence">>) \o <<":", "\"", "High", "\"", "}">>
TextUnder == <<"{">> \o Key(aiProbability) \o <<":", "-", "2", "0", "}">>
TextHumanNull ==
  <<"{">> \o Key(aiProbability) \o <<":", "7", "0", ",">>
    \o Key(humanProbability) \o <<":", "null", "}">>
TextArray == <<"[", "1", "]">>

LiveRequests ==
  {[BlankReq EXCEPT !.endpoint = "text", !.text = t, !.userEmail = Str(UserA)] :
      t \in {Str(ShortText), Num(5)}}
  \cup {[BlankReq EXCEPT !.endpoint = e, !.file = File(<<"a", ".", "png">>)] :
      e \in {"image", "video"}}
  \cup {[BlankReq EXCEPT !.endpoint = "link", !.url = Str(<<"https", ":", "//x">>)]}
  \cup {[BlankReq EXCEPT !.endpoint = "profile", !.url = Str(<<"https", ":", "//p">>),
                         !.profileUrl = Str(<<"https", ":", "//p">>)]}

LiveOutcomes ==
  {Returned(Str(t)) : t \in {TextBoth, TextAiOnly, TextHumanOnly, TextOver, TextUnder,
                             TextHumanNull, TextFenced, TextNull, TextArray}}
    \cup {Failed(ErrStatus429), Failed(ErrOther)}

InitLive ==
  /\ variant \in Variants
  /\ db = <<>>
  /\ seq = 0
  /\ clock = 0
  /\ inflight = [k \in 1..MaxInFlight |-> NoEntry]
  /\ resp = NoResp
  /\ normIn = NoInput
  /\ normOut = NoNorm
  /\ ui = NoUi

NextLive ==
  \/ \E req \in LiveRequests : \E exifData \in ExifValues : Receive(req, exifData, LiveRows)
  \/ \E k \in Slots : \E out \in LiveOutcomes : \E express5 \in BOOLEAN :
       \E raises \in BOOLEAN : SettleCall(k, out, 55, express5, raises)

SpecLive == InitLive /\ [][NextLive]_vars

\* ------------------------------------------------------------- properties

\* the last step ran an analysis handler to its end
Settled(endpoints) == resp.settled /\ resp.req.endpoint \in endpoints

\* the body of the last response, read back as the client reads it
SentBody == JSONparse(resp.body).v

\* the identifier GET /api/history looked up, and its rows in the table
Looked == Or(resp.req.email, Str(<<"anonymous">>)).v
RowsOf(u) == {i \in 1..Len(db) : db[i].user_email = u}

\* C1: an analysis request (text, image, video, link, profile; any variant)
\* whose model call failed with a rate-limit error is answered with HTTP 200
\* and an explanation that contains "Demo Mode", never with 500
C1_QuotaAnswered200 ==
  (Settled(AnalysisEndpoints) /\ ~resp.out.ok /\ isQuotaError(resp.out.error))
    => /\ resp.sent
       /\ resp.status = 200
       /\ Get(SentBody, explanation).t = "str"
       /\ Includes(Get(SentBody, explanation).v, <<"Demo Mode">>)

\* C2: every HTTP 200 body of POST /api/analyze/text has
\* humanProbability + aiProbability = 100, whatever the model output was
C2_ProbabilitiesSumTo100 ==
  (Settled({"text"}) /\ resp.sent /\ resp.status = 200)
    => /\ Get(SentBody, aiProbability).t = "num"
       /\ Get(SentBody, humanProbability).t = "num"
       /\ Get(SentBody, aiProbability).v + Get(SentBody, humanProbability).v = 100

\* C3: for a model output that holds no parseable JSON object the handler's
\* read of it returns the empty object and does not raise
C3_NonJsonYieldsEmptyObject ==
  (normIn.kind = "nonjson" /\ normOut # NoNorm)
    => (normOut.ok /\ normOut.v = Obj(<<>>))

\* C4: parseJSON of the fence-wrapped serialization of a JSON object obj
\* returns an object equal to obj
C4_FencedRoundTrip ==
  (normIn.kind = "wrapped" /\ normOut.by = "prod")
    => (normOut.ok /\ normOut.v = normIn.obj)

\* C5: POST /api/analyze/text with text "" or without text is answered 400 by
\* the step that receives it, which leaves analysis_history unchanged and
\* starts no model call
C5_EmptyTextRejected ==
  [][/\ \A k \in Slots :
          inflight'[k].req.endpoint = "text" => Truthy(inflight'[k].req.text)
     /\ (resp'.req.endpoint = "text" /\ ~Truthy(resp'.req.text))
          => /\ resp'.sent
             /\ resp'.status = 400
             /\ resp'.body = Stringify(ErrorBody(<<"Text is required">>))
             /\ db' = db
             /\ inflight' = inflight]_vars

\* an empty text was answered 400 while the table held a row
C5_Witness ==
  /\ resp.sent
  /\ resp.status = 400
  /\ resp.req.endpoint = "text"
  /\ resp.req.text = Str(<<>>)
  /\ db # <<>>

\* the input the documented API requires of a media request
DocumentedInput(req) ==
  CASE req.endpoint \in {"image", "video"} -> req.file
    [] req.endpoint = "link" -> req.url
    [] OTHER -> req.profileUrl

\* C6: an image, video, link or profile request without its required input
\* (file, url, profileUrl) is answered 400 with an {error} body, before any
\* model call and any insert
C6_MissingInputRejected ==
  /\ \A k \in Slots :
       inflight[k].req.endpoint \in {"image", "video", "link", "profile"}
         => Truthy(DocumentedInput(inflight[k].req))
  /\ (resp.req.endpoint \in {"image", "video", "link", "profile"}
        /\ ~Truthy(DocumentedInput(resp.req)))
       => /\ resp.sent
          /\ resp.status = 400
          /\ Get(SentBody, <<"error">>).t = "str"

\* the error, outside the rate-limit signature, that the model call or the
\* parse of its output raised in the last step
Raised ==
  IF ~resp.out.ok
  THEN IF isQuotaError(resp.out.error) THEN NoError ELSE resp.out.error
  ELSE IF /\ resp.req.endpoint \in AnalysisEndpoints
          /\ ~ReadResult(variant, resp.out.text).ok
       THEN SyntaxError
       ELSE NoError

AnsweredWithRaised ==
  /\ resp.sent
  /\ resp.status = 500
  /\ resp.body = Stringify(ErrorBody(Raised.message))

C8_OneRowPer200 ==
  [][(resp'.sent /\ resp'.req.endpoint \in AnalysisEndpoints)
       => IF resp'.status = 200
          THEN Len(db') = Len(db) + 1 /\ SubSeq(db', 1, Len(db)) = db
          ELSE db' = db]_vars

\* C9: with exactly two rows inserted for x, GET /api/history?email=x returns
\* those two rows, the later-inserted first; for an identifier without
\* inserts it returns no row
C9_TwoRowsLaterFirst ==
  resp.req.endpoint = "history"
    => /\ RowsOf(Looked) = {} => resp.rows = <<>>
       /\ Cardinality(RowsOf(Looked)) = 2
            => \E i, j \in RowsOf(Looked) :
                 i < j /\ resp.rows = <<db[j], db[i]>>

\* C10: GET /api/history for u returns only rows of u, at most 20, namely the
\* 20 most recently inserted rows of u, in descending creation order
C10_TwentyMostRecent ==
  resp.req.endpoint = "history"
    => /\ \A i \in 1..Len(resp.rows) : resp.rows[i].user_email = Looked
       /\ Len(resp.rows) <= 20
       /\ {resp.rows[i].id : i \in 1..Len(resp.rows)}
            = {db[j].id : j \in {j \in RowsOf(Looked) :
                                   Cardinality({k \in RowsOf(Looked) : k > j}) < 20}}
       /\ \A i, j \in 1..Len(resp.rows) :
            i < j => resp.rows[i].created_at >= resp.rows[j].created_at

Ended == {k \in Slots : inflight[k] # NoEntry /\ inflight'[k] = NoEntry}

\* C12: every HTTP 200 body of POST /api/analyze/image has an exif field that
\* holds the metadata parsed from the upload ({} when the parse failed), and
\* the row persisted for the request carries the same exif, on the live path
\* and on the quota-fallback path
C12_ExifAttached ==
  [][\A k \in Ended :
       (inflight[k].req.endpoint = "image" /\ resp'.sent /\ resp'.status = 200)
         => /\ Get(JSONparse(resp'.body).v, exif) = inflight[k].exifData
            /\ Len(db') = Len(db) + 1
            /\ Get(JSONparse(db'[Len(db')].result).v, exif) = inflight[k].exifData]_vars

\* the last response is a fallback body
DemoBody ==
  /\ resp.status = 200
  /\ Get(SentBody, explanation).t = "str"
  /\ Includes(Get(SentBody, explanation).v, <<"Demo Mode">>)

\* C13: the degraded state lasts one request: an analysis request is answered
\* from the fallback only when its own model call failed with a rate-limit
\* error, whatever was answered before it, and a request whose call returned a
\* result is answered with that result
C13_DegradedPerRequest ==
  (Settled(AnalysisEndpoints) /\ resp.sent)
    => /\ DemoBody => (~resp.out.ok /\ isQuotaError(resp.out.error))
       /\ (/\ resp.req.endpoint = "text"
           /\ resp.req.text.t = "str"
           /\ resp.out = Returned(Str(TextBoth)))
            => (resp.status = 200 /\ SentBody = JSONparse(TextBoth).v)

\* the dev server answered one request from the fallback and the next one,
\* whose model call returned a result, with that result
C13_Witness ==
  /\ Len(db) = HistSeed + 2
  /\ Includes(db[HistSeed + 1].result, <<"Demo Mode">>)
  /\ Settled({"text"})
  /\ resp.out = Returned(Str(TextBoth))
  /\ resp.status = 200
  /\ db[HistSeed + 2].result = resp.body

\* C14: a handler that got past its input checks is suspended at its first
\* and only model call; when that call settles, with a result or with an
\* error (quota or not), the handler ends having made exactly one call; a
\* request answered by the input checks made none.
C14_OneModelCall ==
  /\ \A k \in Busy : inflight[k].calls = 1
  /\ resp.settled => resp.calls = 1
  /\ (resp.sent /\ ~resp.settled) => resp.calls = 0

C14_Witness ==
  /\ resp.settled /\ ~resp.out.ok /\ isQuotaError(resp.out.error)
  /\ resp.calls = 1 /\ Busy = {}

\* what tells one request from another: its text or the name of its file
Mark(req) ==
  IF req.endpoint = "text" THEN req.text.v ELSE Get(req.file, originalname).v

Owner(req) == IF req.userEmail.t = "str" THEN req.userEmail.v ELSE <<"anonymous">>

\* C15: while analysis handlers wait together at their model calls, a step
\* that is not the end of a handler inserts nothing; the end of a handler
\* leaves the other waiting handlers as they were, answers its own request
\* from its own model outcome, and inserts at most one row, after the rows
\* already there; that row carries its own user, its own text or file name
\* and the result it answered with, and nothing of a request that waits
\* beside it.
C15_Isolated ==
  [][/\ Ended = {} => db' = db
     /\ \A k \in Ended :
          /\ Ended = {k}
          /\ \A o \in Slots \ {k} : inflight'[o] = inflight[o]
          /\ resp'.req = inflight[k].req
          /\ resp'.sent => ~Includes(resp'.body, UserA) /\ ~Includes(resp'.body, UserB)
          /\ Len(db') - Len(db) \in {0, 1}
          /\ SubSeq(db', 1, Len(db)) = db
          /\ Len(db') = Len(db) + 1 =>
               LET row == db'[Len(db')]
                   own == inflight[k].req
               IN /\ resp'.sent /\ resp'.status = 200
                  /\ row.user_email = Owner(own)
                  /\ row.type = own.endpoint
                  /\ Includes(row.content, Mark(own))
                  /\ row.result = resp'.body
                  /\ (own.endpoint = "text" /\ resp'.out.ok)
                       => row.result = Stringify(JSONparse(resp'.out.text.v).v)
                  /\ \A o \in Busy \ {k} :
                       /\ Owner(inflight[o].req) # Owner(own)
                            => row.user_email # Owner(inflight[o].req)
                       /\ Mark(inflight[o].req) # Mark(own)
                            => ~Includes(row.content, Mark(inflight[o].req))]_vars

\* the request that came second is answered first, with its own row, while
\* the first still waits
C15_Witness ==
  /\ inflight[1].calls = 1 /\ inflight[1].req.userEmail = Str(UserA)
  /\ inflight[2] = NoEntry
  /\ resp.settled /\ resp.status = 200 /\ resp.req.userEmail = Str(UserB)
  /\ Len(db) = 1 /\ db[1].user_email = UserB /\ db[1].content = OtherText

\* C16: every row a handler inserts stores the user it was given, or
\* "anonymous" when there was none or an empty one; a text row stores the
\* first 500 characters of the submitted text, all of it when it is shorter;
\* an image or video row stores a label that ends with the name of the file.
C16_RowContent ==
  [][\A k \in Ended : \A i \in (Len(db) + 1)..Len(db') :
       LET row == db'[i]
           own == inflight[k].req
       IN /\ row.user_email =
               (IF own.userEmail.t = "str" /\ own.userEmail.v # <<>>
                THEN own.userEmail.v ELSE <<"anonymous">>)
          /\ row.type = own.endpoint
          /\ row.type = "text" =>
               /\ Len(row.content) = (IF Len(own.text.v) < 500 THEN Len(own.text.v) ELSE 500)
               /\ row.content = SubSeq(own.text.v, 1, Len(row.content))
          /\ row.type \in {"image", "video"} =>
               LET name == Get(own.file, originalname).v
               IN /\ Len(row.content) > Len(name)
                  /\ SubSeq(row.content, Len(row.content) - Len(name) + 1, Len(row.content)) = name
                  /\ row.content[1] = (IF row.type = "image" THEN "Image" ELSE "Video")]_vars

C16_Witness ==
  /\ resp.settled /\ resp.status = 200
  /\ resp.req.text = Str(LongText) /\ resp.req.userEmail = Str(<<>>)
  /\ Len(db) = 1 /\ Len(db[1].content) = 500 /\ db[1].content # LongText
  /\ db[1].user_email = <<"anonymous">>

\* the answers that carry an error: HTTP 400 or 500 with an {error} body
ErrorAnswers ==
  {a \in Answers : /\ a.kind = "response" /\ a.status \in {400, 500}
                   /\ JSONparse(a.body).ok
                   /\ Get(JSONparse(a.body).v, <<"error">>).t = "str"}

\* C17: when the answer to the call of an analysis page is an HTTP 400 or 500
\* with an {error} body, the page does not take that body as its result and
\* draws no verdict banner and no gauge.
C17_ErrorNotRendered ==
  [][\A http \in ErrorAnswers :
       (ui.component \in AnalysisPages /\ Answer(http))
         => (ui'.result # JSONparse(http.body).v /\ ~ui'.screen.shown)]_vars

\* C18: a page draws ResultDisplay exactly when it is an analysis page with a
\* result; the banner then reads LIKELY AI / FAKE for an aiProbability of 70
\* or more, SUSPICIOUS from 40 up to 70, and LIKELY AUTHENTIC below 40 or
\* when aiProbability is missing; the gauge shows humanProbability, 0 when it
\* is missing.
C18_VerdictAndGauge ==
  /\ ui.screen.shown <=> (ui.component \in AnalysisPages /\ Truthy(ui.result))
  /\ ui.screen.shown =>
       LET ai == Get(ui.result, aiProbability)
           human == Get(ui.result, humanProbability)
       IN /\ ui.screen.label \in {<<"LIKELY AI / FAKE">>, <<"SUSPICIOUS">>, <<"LIKELY AUTHENTIC">>}
          /\ (ai.t = "num" /\ ai.v >= 70) => ui.screen.label = <<"LIKELY AI / FAKE">>
          /\ (ai.t = "num" /\ ai.v >= 40 /\ ai.v < 70) => ui.screen.label = <<"SUSPICIOUS">>
          /\ ((ai.t = "num" /\ ai.v < 40) \/ ai.t \in {"undefined", "null"})
               => ui.screen.label = <<"LIKELY AUTHENTIC">>
          /\ ui.screen.gauge = (IF human.t \in {"undefined", "null"} THEN Num(0) ELSE human)

C18_Witness ==
  /\ ui.screen.shown /\ ~ui.loading
  /\ Get(ui.result, aiProbability) = Num(70) /\ ui.screen.label = <<"LIKELY AI / FAKE">>
  /\ Get(ui.result, humanProbability) = Num(30) /\ ui.screen.gauge = Num(30)

\* C20: every call a page of the front end has issued goes to a path and
\* method that the server registers, and every field it sends is one that the
\* handler of that route reads.
C20_CallsMatchRoutes ==
  ui.call # NoCall =>
    \E e \in Routes(variant) :
      /\ RoutePath(e) = ui.call.path
      /\ RouteMethod(e) = ui.call.method
      /\ \A i \in 1..Len(ui.call.fields) : ui.call.fields[i].k \in Reads(variant, e)

\* the routes all three servers register and the claim compares
SharedRoutes == AnalysisEndpoints \cup {"chat", "history"}

\* C19: a request to an analysis, chat or history route gets the same HTTP
\* status and the same number of inserted rows from whichever of the three
\* servers runs: a request one server answers 400 at its input check is
\* answered 400 there by the other two, and when the model call of a request
\* settles, the status sent and the rows inserted are the ones the handlers of
\* the other two servers produce for that request and that outcome.
C19_VariantsAgree ==
  [][/\ (resp'.sent /\ ~resp'.settled /\ resp'.status = 400
           /\ resp'.req.endpoint \in SharedRoutes)
          => \A v \in Variants :
               Checks(v, resp'.req.endpoint) /\ ~Truthy(Required(v, resp'.req))
     /\ \A k \in Ended :
          (inflight[k].req.endpoint \in SharedRoutes /\ resp'.sent /\ resp'.settled)
            => \A v \in Variants :
                 LET out == resp'.out
                     r == IF out.ok /\ inflight[k].req.endpoint \in AnalysisEndpoints
                          THEN ReadResult(v, out.text) ELSE Fail
                     eff == Settle(v, inflight[k], out, r, 55)
                 IN /\ ~(Checks(v, inflight[k].req.endpoint)
                           /\ ~Truthy(Required(v, inflight[k].req)))
                    /\ eff.kind = "response"
                    /\ eff.status = resp'.status
                    /\ Len(eff.rows) = Len(db') - Len(db)]_vars

\* C21: for a model output that is already the serialization of a JSON object,
\* parseJSON returns JSON.parse of the output as it stands, also when a
\* string value of the object holds three backquotes.
C21_StrictParseFirst ==
  (normIn.kind = "raw" /\ normOut # NoNorm /\ normOut.by = "prod")
    => /\ JSONparse(normIn.text).ok
       /\ normOut.ok
       /\ normOut.v = JSONparse(normIn.text).v

Keys(o) == IF o.t = "obj" THEN {o.v[i].k : i \in 1..Len(o.v)} ELSE {}

\* C22: the body of an HTTP 200 answer to a model call that returned holds the
\* fields of the parsed model output unchanged, and no others, apart from
\* humanProbability and, for an image, exif; a humanProbability the output
\* has is kept; where the handler backfills it, it is 100 - aiProbability,
\* also below 0 and above 100.
C22_PassThrough ==
  [][\A k \in Ended :
       (resp'.sent /\ resp'.status = 200 /\ resp'.out.ok
          /\ inflight[k].req.endpoint \in AnalysisEndpoints)
         => LET parsed == ReadResult(variant, resp'.out.text).v
                body == JSONparse(resp'.body).v
                apart == {humanProbability}
                           \cup (IF inflight[k].req.endpoint = "image" THEN {exif} ELSE {})
                ai == Get(parsed, aiProbability)
                human == Get(parsed, humanProbability)
            IN IF parsed.t # "obj" THEN body = parsed
               ELSE /\ Keys(body) \ apart = Keys(parsed) \ apart
                    /\ \A f \in Keys(parsed) \ apart : Get(body, f) = Get(parsed, f)
                    /\ ~IsNullish(human) => Get(body, humanProbability) = human
                    /\ (IsNullish(human) /\ Get(body, humanProbability) # human)
                         => /\ variant = "prod" /\ ai.t = "num"
                            /\ Get(body, humanProbability) = Num(100 - ai.v)
                    /\ (variant = "prod" /\ inflight[k].req.endpoint # "profile"
                          /\ ai.t = "num" /\ IsNullish(human))
                         => Get(body, humanProbability) = Num(100 - ai.v)]_vars

C22_Witness ==
  /\ variant = "prod" /\ Settled({"text"}) /\ resp.sent /\ resp.status = 200
  /\ resp.out = Returned(Str(TextOver))
  /\ Get(SentBody, aiProbability) = Num(150)
  /\ Get(SentBody, humanProbability) = Num(0 - 50)
  /\ Get(SentBody, <<"confidence">>) = Str(<<"High">>)

\* the places (from 1) where pat occurs in s
Occurrences(s, pat) ==
  {i \in 1..(Len(s) - Len(pat) + 1) : SubSeq(s, i, i + Len(pat) - 1) = pat}

NonEmpty(parts) == SelectSeq(parts, LAMBDA p : p.span \/ p.s # <<>>)

\* what one section makes of one part, by the claim
Marked(p, pat) ==
  IF p.span \/ Occurrences(p.s, pat) = {} THEN <<p>>
  ELSE LET i == CHOOSE i \in Occurrences(p.s, pat) : \A j \in Occurrences(p.s, pat) : i <= j
       IN NonEmpty(<<[span |-> FALSE, s |-> SubSeq(p.s, 1, i - 1)],
                     [span |-> TRUE, s |-> pat],
                     [span |-> FALSE, s |-> SubSeq(p.s, i + Len(pat), Len(p.s))]>>)

\* C23: HighlightedText takes the sections one by one, none before a longer
\* one; a section leaves the spans made so far as they are and, in every
\* string part it occurs in, turns its first occurrence into a span; a section
\* that occurs in no string part, only inside spans, changes nothing.
C23_LongestFirst ==
  [][/\ (ui.pc = "start" /\ ui'.pc = "forEach")
          => /\ Len(ui'.sortedSections) = Len(ui.suspiciousSections)
             /\ \A s \in {ui.suspiciousSections[i] : i \in 1..Len(ui.suspiciousSections)} :
                  Cardinality({i \in 1..Len(ui'.sortedSections) : ui'.sortedSections[i] = s})
                    = Cardinality({i \in 1..Len(ui.suspiciousSections) :
                                     ui.suspiciousSections[i] = s})
     /\ ui.pc = "forEach"
          => LET pat == ui.sortedSections[1].text
             IN /\ \A j \in 1..Len(ui.sortedSections) :
                     Len(ui.sortedSections[j].text) <= Len(pat)
                /\ ui'.sortedSections = Tail(ui.sortedSections)
                /\ ui'.parts = Concat([i \in 1..Len(ui.parts) |-> Marked(ui.parts[i], pat)])
                /\ SelectSeq(ui'.parts, LAMBDA p : p.span /\ p.s # pat)
                     = SelectSeq(ui.parts, LAMBDA p : p.span /\ p.s # pat)
                /\ (\A i \in 1..Len(ui.parts) :
                      ui.parts[i].span \/ Occurrences(ui.parts[i].s, pat) = {})
                     => ui'.parts = ui.parts]_vars

\* "ab" is marked first and "a", which occurs only inside it, is not
C23_Witness ==
  /\ ui.pc = "done"
  /\ ui.text = <<"b", "a", "b">>
  /\ ui.suspiciousSections = <<[text |-> <<"a">>], [text |-> <<"a", "b">>]>>
  /\ ui.parts = <<[span |-> FALSE, s |-> <<"b">>], [span |-> TRUE, s |-> <<"a", "b">>]>>

\* C30: the string parts and the contents of the spans of HighlightedText, put
\* together in order, are the text it was given; when no section occurs in
\* the text the text is its only part.
C30_TextPreserved ==
  ui.pc # "start"
    => /\ Concat([i \in 1..Len(ui.parts) |-> ui.parts[i].s]) = ui.text
       /\ (\A i \in 1..Len(ui.suspiciousSections) :
             Occurrences(ui.text, ui.suspiciousSections[i].text) = {})
            => ui.parts = <<[span |-> FALSE, s |-> ui.text]>>

C30_Witness ==
  /\ ui.pc = "done"
  /\ ui.text = <<"a", "b", "b", "a">>
  /\ Len(ui.parts) = 3
  /\ ui.parts[1].span /\ ui.parts[1].s = <<"a">>
  /\ ui.parts[2].span /\ ui.parts[2].s = <<"b">>
  /\ ~ui.parts[3].span /\ ui.parts[3].s = <<"b", "a">>

\* C27: the result ImageVerifier holds, and so shows, is the verdict of the
\* file that is selected now.
C27_ResultOfSelectedFile ==
  Truthy(ui.result)
    => /\ ui.file # Null
       /\ ui.result = VerdictFor(ui.file)

\* C28: unless the user's last camera action was to start the camera, no
\* camera stream is live, streamRef holds none and cameraActive is false.
C28_StoppedStaysStopped ==
  ~ui.cameraWanted
    => /\ ui.live = {}
       /\ ui.streamRef = NoStream
       /\ ~ui.cameraActive

Replies == SelectSeq(ui.messages, LAMBDA m : m.role = "ai")

Asked == SelectSeq(ui.messages, LAMBDA m : m.role = "user")

\* C29: in Chatbot loading is true while a sendMessage call waits for its
\* response, and the replies are the answers to the user messages in the
\* order of those messages, at most one for each.
C29_ChatInOrder ==
  /\ ui.awaiting # {} => ui.loading
  /\ Len(Replies) <= Len(Asked)
  /\ \E pick \in SUBSET (1..Len(Asked)) :
       /\ Cardinality(pick) = Len(Replies)
       /\ \A i \in 1..Len(Replies) :
            LET nth == CHOOSE j \in pick : Cardinality({h \in pick : h <= j}) = i
            IN Replies[i].text = Get(ReplyTo(Asked[nth].text.v), explanation)

\* C24: an HTTP 200 answer to an analysis request whose model call returned
\* comes with one row appended to analysis_history in the same run of the
\* handler, whose result column is the text that was sent as the body, and
\* the INSERT did not raise; when the INSERT of the try block raises, the
\* request is not answered with HTTP 200 and no row is stored.
C24_StoredThenAnswered ==
  [][\A k \in Ended :
       (resp'.out.ok /\ inflight[k].req.endpoint \in AnalysisEndpoints)
         => /\ (resp'.sent /\ resp'.status = 200)
                 => /\ ~resp'.raised
                    /\ Len(db') = Len(db) + 1
                    /\ SubSeq(db', 1, Len(db)) = db
                    /\ db'[Len(db')].result = resp'.body
                    /\ db'[Len(db')].type = inflight[k].req.endpoint
            /\ resp'.raised
                 => /\ ~(resp'.sent /\ resp'.status = 200)
                    /\ db' = db]_vars

\* the INSERT of the try block raised for a model output that parses, and
\* the request was answered with HTTP 500
C24_Witness ==
  /\ Settled(AnalysisEndpoints) /\ resp.out.ok /\ resp.raised
  /\ resp.sent /\ resp.status = 500 /\ db = <<>>
  /\ resp.out.text = Str(TextBoth)

\* C25: an analysis handler whose model call has returned or failed has run
\* to its end with a response sent, whatever the text value was and whether
\* or not an INSERT raised
C25_AlwaysAnswered ==
  Settled(AnalysisEndpoints) => resp.sent

\* C25, the fallback INSERT alone: with a text that is a string, a handler
\* whose model call has ended has sent a response
C25_AnsweredForStrings ==
  (Settled(AnalysisEndpoints) /\ resp.req.text.t # "num") => resp.sent

\* C26: on the production server, for every model output that came back,
\* parseJSON gives a JSON object (not null, not an array) and the request,
\* its text a string and its INSERT done, is answered with HTTP 200
C26_ParsedIsObject ==
  (variant = "prod" /\ Settled(AnalysisEndpoints) /\ resp.out.ok
     /\ ~resp.raised /\ resp.req.text.t # "num")
    => /\ parseJSON(resp.out.text.v).t = "obj"
       /\ resp.sent
       /\ resp.status = 200

\* C26, the object alone: what parseJSON returns is a JSON object
C26_NeverAnArray ==
  (variant = "prod" /\ Settled(AnalysisEndpoints) /\ resp.out.ok)
    => parseJSON(resp.out.text.v).t # "arr"

====
